---------------------------- MODULE Spec2Model ----------------------------
(***************************************************************************)
(* A model of the service graph of the Trading-System repository: the      *)
(* keyed stores of the services, their counters, the listener lists wired  *)
(* in main, the output files and the two outbound sockets.  One root event *)
(* (a Price, an OrderBook, a Trade, an Inquiry, or a direct call of        *)
(* SendQuote / RejectInquiry) is one action: the handler walks the         *)
(* listener graph synchronously, so the whole walk is one step.            *)
(*                                                                         *)
(* Prices are integers in units of 1/512 (1/128 = 4 units), times are in   *)
(* microseconds.  Every handler is an operator from a working record `s'   *)
(* (all the fields of the program state plus the call trace of the running *)
(* root event) to the record after the call.                               *)
(***************************************************************************)
EXTENDS Integers, Sequences, FiniteSets, TLC

VARIABLES
  priceMap,          \* PricingService::priceMap
  algoStreamMap,     \* AlgoStreamingService::algoStreamMap
  asCount,           \* AlgoStreamingService::count
  priceStreamMap,    \* StreamingService::priceStreamMap
  streamSink,        \* lines written to the stream socket
  guiStartTime,      \* GUIService::startTime
  orderBookMap,      \* MarketDataService::orderBookMap
  algoExecutionMap,  \* AlgoExecutionService::algoExecutionMap
  aeCount,           \* AlgoExecutionService::count
  executionOrderMap, \* ExecutionService::executionOrderMap
  execSink,          \* lines written to the execution socket
  tradeMap,          \* TradeBookingService::tradeMap
  tbCount,           \* TradeBookingListener::count
  positionMap,       \* PositionService::positionMap
  pv01Map,           \* RiskService::pv01Map
  inquiryMap,        \* InquiryService::inquiryMap
  histMap,           \* HistoricalDataService::dataMap, one per service type
  files,             \* the output files, each a sequence of lines
  now,               \* std::chrono::system_clock
  alive,             \* which feed adapters still run
  nEvents,           \* root events taken so far
  last,              \* the root event that ran last, and how it ended
  running,           \* where each feed adapter's thread is in its record
  trace,             \* the calls made while it ran, in order
  history,           \* the calls made since startup, in order
  arrivals,          \* the clock at each Price taken so far
  socket             \* the connection of each socket feed and its streambuf

vars == <<priceMap, algoStreamMap, asCount, priceStreamMap, streamSink,
          guiStartTime, orderBookMap, algoExecutionMap, aeCount,
          executionOrderMap, execSink, tradeMap, tbCount, positionMap,
          pv01Map, inquiryMap, histMap, files, now, alive, nEvents, last,
          trace, history, arrivals, running, socket>>

---------------------------------------------------------------------------
\* Bounds of the model.

\* Root events taken in a run of one part of the graph.
MaxEvents == 3
\* Root events taken in a run of the whole graph.
MaxGraphEvents == 2
\* Lines a peer sends on one connection of a socket feed.
MaxLines == 2
\* Prices taken in a run of a burst of Prices.
MaxBurstEvents == 10

---------------------------------------------------------------------------
\* Program constants.

\* The GUI throttle in milliseconds.
Throttle == 300
\* 1/128 in units of 1/512: the spread at which AlgoExecution aggresses.
TightSpread == 4
\* The two visible sizes of an algo stream.
VisibleEven == 1000000
VisibleOdd == 2000000
\* Microseconds in a millisecond (duration_cast<milliseconds>).
UsPerMs == 1000
\* MarketDataService::bookDepth: the levels per side of one snapshot.
BookDepth == 5

---------------------------------------------------------------------------
\* Input domains.

Products == {"9128283H1", "912828M80"}
\* (mid, bid/offer spread) of a Price; 51200 is 100.0.
Quotes == {[mid |-> 51200, spread |-> 4], [mid |-> 51202, spread |-> 8]}
\* What system_clock moved by between two root events, in microseconds: set
\* back by 100 ms, forward by 300 ms, by 300.9 ms and by 301 ms.
Delays == {-100000, 300000, 300900, 301000}
Feeds == {"price", "market", "trade", "inquiry"}
\* The feed adapters whose records reach the position service.
Threads == {"trade", "market"}
\* What a write to a std::map that another thread changed meanwhile can do:
\* go through on what was loaded, or bring the process down.
RaceOutcomes == {"stale", "crashes"}
\* The five levels per side of a market data line.  The first has two
\* prices per side, repeated, with best bid 51196 and best offer 51200
\* (1/128 apart); the second one price per side, 51196 and 51204 (1/64).
BookShapes ==
  {[bidStack |-> <<[price |-> 51194, quantity |-> 2000000, side |-> "BID"],
                   [price |-> 51196, quantity |-> 1000000, side |-> "BID"],
                   [price |-> 51194, quantity |-> 2000000, side |-> "BID"],
                   [price |-> 51196, quantity |-> 1000000, side |-> "BID"],
                   [price |-> 51194, quantity |-> 2000000, side |-> "BID"]>>,
    offerStack |-> <<[price |-> 51204, quantity |-> 4000000, side |-> "OFFER"],
                     [price |-> 51200, quantity |-> 3000000, side |-> "OFFER"],
                     [price |-> 51204, quantity |-> 4000000, side |-> "OFFER"],
                     [price |-> 51200, quantity |-> 3000000, side |-> "OFFER"],
                     [price |-> 51204, quantity |-> 4000000, side |-> "OFFER"]>>],
   [bidStack |-> [k \in 1..BookDepth |->
                    [price |-> 51196, quantity |-> 1000000, side |-> "BID"]],
    offerStack |-> [k \in 1..BookDepth |->
                      [price |-> 51204, quantity |-> 3000000,
                       side |-> "OFFER"]]]}
\* What rand() makes of an order id and a parent order id.
OrderIds == {"Algo0A1B2C3D4E5", "AlgoZ9Y8X7W6V5U"}
ParentIds == {"AlgoParent0A1B2"}
\* What the uninitialised side, price and quantity of AlgoExecuteOrder hold.
UninitOrders == {[side |-> "BID", price |-> 0, quantity |-> 5],
                 [side |-> "OFFER", price |-> -1, quantity |-> 0]}
\* Trades of the trade feed, per product.
TradeShapes ==
  {[tradeId |-> "T1", price |-> 51200, book |-> "TRSY1",
    quantity |-> 1000000, side |-> "BUY"],
   [tradeId |-> "T2", price |-> 51200, book |-> "TRSY1",
    quantity |-> 3000000, side |-> "BUY"],
   [tradeId |-> "T3", price |-> 51198, book |-> "TRSY2",
    quantity |-> 2000000, side |-> "SELL"],
   [tradeId |-> "T1", price |-> 51198, book |-> "TRSY1",
    quantity |-> 5000000, side |-> "SELL"]}
\* ExecutionOrders handed to the execution service by a caller other than
\* the algo: both sides, two prices, with and without a hidden quantity.
ExecutionOrders ==
  {[product |-> "912828M80", side |-> sd, orderId |-> "Algo0A1B2C3D4E5",
    orderType |-> "MARKET", price |-> pr, visibleQuantity |-> 1000000,
    hiddenQuantity |-> hq, parentOrderId |-> "AlgoParent0A1B2",
    isChildOrder |-> FALSE] :
     sd \in {"BID", "OFFER"}, pr \in {51196, 51200}, hq \in {0, 2000000}}
\* How a market data line can be: well-formed, with a size that is not a
\* number at the second or the fourth level, or with three levels only.
WellFormed == {[fault |-> "none", levels |-> BookDepth]}
Malformed == {[fault |-> "size", levels |-> 1],
              [fault |-> "size", levels |-> 3],
              [fault |-> "short", levels |-> 3]}
\* What a read past the end of a vector of strings can end in.
UndefinedReads == {"throws", "crashes"}
\* A CUSIP the registry of products does not have.
UnknownCusips == {"912828XX0"}
\* The feeds read from a socket by async_read_until.
SocketFeeds == {"price", "trade"}
\* The bytes of a feed line, and the record they denote.  A byte of the
\* model is one token of the text: a field, a comma or the newline, so a
\* read can end between any two of them.  prices.txt has
\* timestamp,CUSIP,bid,ask,spread and trades.txt has
\* CUSIP,tradeId,price,book,quantity,side.
PriceFeedLines ==
  {[text |-> <<"2023-12-23 22:42:44.260", ",", "9128283H1", ",", "99-316",
               ",", "100-002", ",", "0.0078125">>,
    record |-> [product |-> "9128283H1", mid |-> 51200, spread |-> 4]],
   [text |-> <<"2023-12-23 22:42:44.262", ",", "912828M80", ",", "99-317",
               ",", "100-003", ",", "0.015625">>,
    record |-> [product |-> "912828M80", mid |-> 51202, spread |-> 8]]}
TradeFeedLines ==
  {[text |-> <<"9128283H1", ",", "T1", ",", "100-000", ",", "TRSY1", ",",
               "1000000", ",", "BUY">>,
    record |-> [product |-> "9128283H1", tradeId |-> "T1", price |-> 51200,
                book |-> "TRSY1", quantity |-> 1000000, side |-> "BUY"]],
   [text |-> <<"912828M80", ",", "T3", ",", "99-317", ",", "TRSY2", ",",
               "2000000", ",", "SELL">>,
    record |-> [product |-> "912828M80", tradeId |-> "T3", price |-> 51198,
                book |-> "TRSY2", quantity |-> 2000000, side |-> "SELL"]]}
FeedLines == [price |-> PriceFeedLines, trade |-> TradeFeedLines]
\* How many bytes of a line a peer has sent when it stops short of the
\* newline: none, the first two fields, or the first five.
FragmentLengths == {0, 4, 9}
\* A feed nobody has connected to yet.
Listening ==
  [state |-> "listening", wire |-> <<>>, request |-> <<>>, arrived |-> <<>>,
   sent |-> <<>>, delivered |-> <<>>]
InquiryIds == {"INQ1", "INQ2"}
InquiryStates == {"RECEIVED", "QUOTED", "DONE", "REJECTED", "CUSTOMER_REJECTED"}
QuotePrices == {51200, 51328}
FileNames == {"positions.txt", "risk.txt", "executions.txt", "streaming.txt",
              "allinquiries.txt", "gui.txt"}
ServiceTypes == {"POSITION", "RISK", "EXECUTION", "STREAMING", "INQUIRY"}
\* What an uninitialised long can hold.
UninitLong == {-1, 0}

---------------------------------------------------------------------------
\* std::map and C++ arithmetic.

EmptyMap == [k \in {} |-> 0]

Has(m, k) == k \in DOMAIN m

Put(m, k, v) == [x \in (DOMAIN m) \cup {k} |-> IF x = k THEN v ELSE m[x]]

Erase(m, k) == [x \in (DOMAIN m) \ {k} |-> m[x]]

\* a % b of C++: the sign follows the dividend.
CMod(a, b) == IF a >= 0 THEN a % b ELSE -((-a) % b)

\* a / b of C++ on integers: truncation toward zero.
CDiv(a, b) == IF a >= 0 THEN a \div b ELSE -((-a) \div b)

---------------------------------------------------------------------------
\* The call trace of the running root event.

Ev(call, on, arg) == [call |-> call, on |-> on, arg |-> arg]

Log(s, e) == [s EXCEPT !.trace = Append(@, e)]

\* How many entries of the trace are the call `call' on `on'.
Calls(t, call, on) ==
  Cardinality({i \in DOMAIN t : t[i].call = call /\ t[i].on = on})

---------------------------------------------------------------------------
\* The listener lists, in the order main registers them.

\* Fault injection: the historical listeners of the position and execution
\* services are registered before the listeners that carry the record on.
Listeners_HistoricalFirst ==
  [pricing |-> <<"AlgoStreamingServiceListener", "GUIServiceListener">>,
   algoStreaming |-> <<"StreamingServiceListener">>,
   streaming |-> <<"HistoricalStreamingListener">>,
   marketData |-> <<"AlgoExecutionServiceListener">>,
   algoExecution |-> <<"ExecutionServiceListener">>,
   execution |-> <<"HistoricalExecutionListener", "TradeBookingListener">>,
   tradeBooking |-> <<"PositionServiceListener">>,
   position |-> <<"HistoricalPositionListener", "RiskServiceListener">>,
   risk |-> <<"HistoricalRiskListener">>,
   inquiry |-> <<"HistoricalInquiryListener">>]

Listeners ==
  [pricing |-> <<"AlgoStreamingServiceListener", "GUIServiceListener">>,
   algoStreaming |-> <<"StreamingServiceListener">>,
   streaming |-> <<"HistoricalStreamingListener">>,
   marketData |-> <<"AlgoExecutionServiceListener">>,
   algoExecution |-> <<"ExecutionServiceListener">>,
   execution |-> <<"TradeBookingListener", "HistoricalExecutionListener">>,
   tradeBooking |-> <<"PositionServiceListener">>,
   position |-> <<"RiskServiceListener", "HistoricalPositionListener">>,
   risk |-> <<"HistoricalRiskListener">>,
   inquiry |-> <<"HistoricalInquiryListener">>]

RECURSIVE Notify(_, _, _)

---------------------------------------------------------------------------
\* Historical data service: one instance per persisted record type.

\* Fault injection: the RISK records go to the file of the positions.
FileName_Swapped(type) ==
  CASE type = "POSITION" -> "positions.txt"
    [] type = "RISK" -> "positions.txt"
    [] type = "EXECUTION" -> "executions.txt"
    [] type = "STREAMING" -> "streaming.txt"
    [] type = "INQUIRY" -> "allinquiries.txt"

\* Fault injection: every historical listener writes to risk.txt.
FileName_OneFile(type) == "risk.txt"

FileName(type) ==
  CASE type = "POSITION" -> "positions.txt"
    [] type = "RISK" -> "risk.txt"
    [] type = "EXECUTION" -> "executions.txt"
    [] type = "STREAMING" -> "streaming.txt"
    [] type = "INQUIRY" -> "allinquiries.txt"

\* Appends getTime() and the record to the file of the service's type.  The
\* result directory is created by main before any service runs, so the file
\* opens.
HistoricalDataConnector_Publish(s, type, data) ==
  Log([s EXCEPT !.files[FileName(type)] =
                    Append(@, [time |-> s.now, data |-> data])],
      Ev("append", FileName(type), data))

HistoricalDataService_PersistData(s, type, persistKey, data) ==
  HistoricalDataConnector_Publish(
    [s EXCEPT !.histMap[type] = Put(@, persistKey, data)], type, data)

\* The overloads of ProcessAdd choose the key by the record type.
HistoricalDataServiceListener_ProcessAdd(s, type, data) ==
  LET persistKey ==
        CASE type \in {"POSITION", "RISK", "STREAMING"} -> data.product
          [] type = "EXECUTION" -> data.orderId
          [] type = "INQUIRY" -> data.inquiryId
  IN HistoricalDataService_PersistData(s, type, persistKey, data)

---------------------------------------------------------------------------
\* Streaming service and its outbound socket.

\* boost::asio::connect throws when the downstream server is not there; the
\* write itself is asynchronous and its outcome is ignored.
StreamOutputConnector_Publish(s, priceStream) ==
  IF s.streamUp
    THEN Log([s EXCEPT !.streamSink = Append(@, priceStream)],
             Ev("Publish", "StreamOutputConnector", priceStream))
    ELSE [s EXCEPT !.threw = TRUE]

StreamingService_PublishPrice(s, priceStream) ==
  StreamOutputConnector_Publish(
    Log(s, Ev("PublishPrice", "StreamingService", priceStream)), priceStream)

StreamingService_AddPriceStream(s, algoStream) ==
  LET priceStream == algoStream.priceStream
      key == priceStream.product
      s1 == Log([s EXCEPT !.priceStreamMap =
                             Put(Erase(@, key), key, priceStream)],
                Ev("insert", "priceStreamMap", priceStream))
  IN Notify(s1, Listeners.streaming, priceStream)

\* Fault injection: the stream goes to the sink before it is stored.
StreamingServiceListener_ProcessAdd_PublishFirst(s, algoStream) ==
  LET s1 == StreamingService_PublishPrice(s, algoStream.priceStream)
  IN IF s1.threw THEN s1
     ELSE StreamingService_AddPriceStream(s1, algoStream)

StreamingServiceListener_ProcessAdd(s, algoStream) ==
  LET s1 == StreamingService_AddPriceStream(s, algoStream)
  IN IF s1.threw THEN s1
     ELSE StreamingService_PublishPrice(s1, algoStream.priceStream)

---------------------------------------------------------------------------
\* Algo streaming service.

\* The AlgoStream built from a Price and the counter value.
AlgoStreamingService_MakeAlgoStream(price, count, halfSpread) ==
  LET visibleQuantity ==
        IF CMod(count, 2) = 0 THEN VisibleEven ELSE VisibleOdd
      hiddenQuantity == visibleQuantity * 2
      bidOrder == [price |-> price.mid - halfSpread,
                   visible |-> visibleQuantity,
                   hidden |-> hiddenQuantity, side |-> "BID"]
      offerOrder == [price |-> price.mid + halfSpread,
                     visible |-> visibleQuantity,
                     hidden |-> hiddenQuantity, side |-> "OFFER"]
  IN [priceStream |-> [product |-> price.product, bid |-> bidOrder,
                       offer |-> offerOrder]]

\* Fault injection: the whole spread, not half of it, on each side.
AlgoStreamingService_PublishAlgoStream_FullSpread(s, price) ==
  LET key == price.product
      algoStream ==
        AlgoStreamingService_MakeAlgoStream(price, s.asCount, price.spread)
      s1 == [s EXCEPT !.asCount = @ + 1,
                      !.algoStreamMap = Put(Erase(@, key), key, algoStream)]
  IN Notify(s1, Listeners.algoStreaming, algoStream)

\* Fault injection: the counter moves by two.
AlgoStreamingService_PublishAlgoStream_SkipCount(s, price) ==
  LET key == price.product
      algoStream ==
        AlgoStreamingService_MakeAlgoStream(price, s.asCount,
                                            CDiv(price.spread, 2))
      s1 == [s EXCEPT !.asCount = @ + 2,
                      !.algoStreamMap = Put(Erase(@, key), key, algoStream)]
  IN Notify(s1, Listeners.algoStreaming, algoStream)

\* Fault injection: each product has a count of its own, read back from
\* the stream stored for it.
AlgoStreamingService_PublishAlgoStream_CountPerProduct(s, price) ==
  LET key == price.product
      count == IF ~Has(s.algoStreamMap, key) THEN 0
               ELSE IF s.algoStreamMap[key].priceStream.bid.visible
                         = VisibleEven THEN 1
               ELSE 0
      algoStream ==
        AlgoStreamingService_MakeAlgoStream(price, count,
                                            CDiv(price.spread, 2))
      s1 == [s EXCEPT !.asCount = @ + 1,
                      !.algoStreamMap = Put(Erase(@, key), key, algoStream)]
  IN Notify(s1, Listeners.algoStreaming, algoStream)

AlgoStreamingService_PublishAlgoStream(s, price) ==
  LET key == price.product
      algoStream ==
        AlgoStreamingService_MakeAlgoStream(price, s.asCount,
                                            CDiv(price.spread, 2))
      s1 == [s EXCEPT !.asCount = @ + 1,
                      !.algoStreamMap = Put(Erase(@, key), key, algoStream)]
  IN Notify(s1, Listeners.algoStreaming, algoStream)

AlgoStreamingServiceListener_ProcessAdd(s, price) ==
  AlgoStreamingService_PublishAlgoStream(s, price)

---------------------------------------------------------------------------
\* GUI service.

GUIConnector_Publish(s, price) ==
  Log([s EXCEPT !.files["gui.txt"] =
                    Append(@, [time |-> s.now, data |-> price])],
      Ev("append", "gui.txt", price))

\* Fault injection: publishes when the interval is at least the throttle.
GUIService_PublishThrottledPrice_AtLeast(s, price) ==
  LET diff == CDiv(s.now - s.guiStartTime, UsPerMs)
  IN IF diff >= Throttle
       THEN GUIConnector_Publish([s EXCEPT !.guiStartTime = s.now], price)
       ELSE s

\* One startTime for the whole service, whatever the product.  The handler
\* reads the clock once.
GUIService_PublishThrottledPrice(s, price) ==
  LET diff == CDiv(s.now - s.guiStartTime, UsPerMs)
  IN IF diff > Throttle
       THEN GUIConnector_Publish([s EXCEPT !.guiStartTime = s.now], price)
       ELSE s

GUIServiceListener_ProcessAdd(s, price) ==
  GUIService_PublishThrottledPrice(s, price)

---------------------------------------------------------------------------
\* Pricing service.

\* Fault injection: the GUI listener is called before the algo streaming
\* listener.
PricingService_OnMessage_GuiFirst(s, price) ==
  LET key == price.product
      s1 == [s EXCEPT !.priceMap = Put(Erase(@, key), key, price)]
  IN Notify(s1, <<Listeners.pricing[2], Listeners.pricing[1]>>, price)

PricingService_OnMessage(s, price) ==
  LET key == price.product
      s1 == [s EXCEPT !.priceMap = Put(Erase(@, key), key, price)]
  IN Notify(s1, Listeners.pricing, price)

\* Whether the registry of products has a constructor for the CUSIP;
\* getProductObject throws std::invalid_argument when it has none.
getProductObject_Known(productId) == productId \in Products

\* One line of the price feed: the product is looked up, then the Price is
\* built and handed to the service.  The exception of an unknown CUSIP
\* leaves handle_read and io_service.run(); Subscribe catches it, logs it,
\* closes the socket and returns.
PriceDataConnector_handle_read(s, price) ==
  IF getProductObject_Known(price.product)
    THEN PricingService_OnMessage(s, price)
    ELSE Log([s EXCEPT !.threw = TRUE],
             Ev("log", "ERROR", <<"Unknown CUSIP", price.product>>))

---------------------------------------------------------------------------
\* Risk service.

\* The unit PV01 of the static table, one opaque value per CUSIP.
getPV01(productId) == <<"pv01", productId>>

RECURSIVE SumOver(_, _)
SumOver(f, keys) ==
  IF keys = {} THEN 0
  ELSE LET k == CHOOSE x \in keys : TRUE IN f[k] + SumOver(f, keys \ {k})

Position_GetAggregatePosition(position) ==
  SumOver(position.bookPositionMap, DOMAIN position.bookPositionMap)

\* Fault injection: the quantity is replaced, not added to.
PV01_AddQuantity_Replace(pv01, quantity) ==
  [pv01 EXCEPT !.quantity = quantity]

\* Fault injection: the stored quantity is left as it was.
PV01_AddQuantity_Keep(pv01, quantity) == pv01

PV01_AddQuantity(pv01, quantity) ==
  [pv01 EXCEPT !.quantity = @ + quantity]

\* The listeners get the local PV01 built from this position, the map keeps
\* the accumulated one.
RiskService_AddPosition(s, position) ==
  LET productId == position.product
      quantity == Position_GetAggregatePosition(position)
      pv01 == [product |-> productId, pv01 |-> getPV01(productId),
               quantity |-> quantity]
      s1 == IF Has(s.pv01Map, productId)
              THEN [s EXCEPT !.pv01Map[productId] =
                                 PV01_AddQuantity(@, quantity)]
              ELSE [s EXCEPT !.pv01Map = Put(@, productId, pv01)]
  IN Notify(s1, Listeners.risk, pv01)

RiskServiceListener_ProcessAdd(s, position) ==
  RiskService_AddPosition(s, position)

---------------------------------------------------------------------------
\* Position service.

\* Fault injection: the book slot is overwritten by the last trade.
Position_AddPosition_Overwrite(position, book, quantity) ==
  [position EXCEPT !.bookPositionMap = Put(@, book, quantity)]

Position_AddPosition(position, book, quantity) ==
  IF ~Has(position.bookPositionMap, book)
    THEN [position EXCEPT !.bookPositionMap = Put(@, book, quantity)]
    ELSE [position EXCEPT !.bookPositionMap[book] = @ + quantity]

PositionService_AddTrade(s, trade) ==
  LET productId == trade.product
      book == trade.book
      quantity == IF trade.side = "BUY" THEN trade.quantity
                  ELSE -trade.quantity
      s1 == IF ~Has(s.positionMap, productId)
              THEN [s EXCEPT !.positionMap =
                       Put(@, productId,
                           Position_AddPosition(
                             [product |-> productId,
                              bookPositionMap |-> EmptyMap],
                             book, quantity))]
              ELSE [s EXCEPT !.positionMap[productId] =
                                 Position_AddPosition(@, book, quantity)]
  IN Notify(s1, Listeners.position, s1.positionMap[productId])

\* AddTrade run by a thread that did its finds and loads on the map as it
\* was at s.seen.positionMap and does its inserts and stores on the map as
\* it is now: insert keeps an entry that is there, the += writes the loaded
\* value plus the quantity.  With nothing changed in between this is
\* PositionService_AddTrade.
PositionService_AddTrade_Loaded(s, trade) ==
  LET productId == trade.product
      book == trade.book
      quantity == IF trade.side = "BUY" THEN trade.quantity
                  ELSE -trade.quantity
      seen == s.seen.positionMap
      position == Position_AddPosition(
                    [product |-> productId, bookPositionMap |-> EmptyMap],
                    book, quantity)
      stored ==
        IF ~Has(seen, productId)
          THEN IF Has(s.positionMap, productId) THEN s.positionMap
               ELSE Put(s.positionMap, productId, position)
          ELSE IF ~Has(seen[productId].bookPositionMap, book)
                 THEN IF Has(s.positionMap[productId].bookPositionMap, book)
                        THEN s.positionMap
                        ELSE [s.positionMap EXCEPT
                                ![productId].bookPositionMap =
                                   Put(@, book, quantity)]
                 ELSE [s.positionMap EXCEPT
                         ![productId].bookPositionMap[book] =
                            seen[productId].bookPositionMap[book] + quantity]
      s1 == [s EXCEPT !.positionMap = stored]
  IN IF seen /= s.positionMap /\ s.seen.outcome = "crashes"
       THEN [s EXCEPT !.threw = TRUE, !.crashed = TRUE]
       ELSE Notify(s1, Listeners.position, s1.positionMap[productId])

PositionServiceListener_ProcessAdd(s, trade) ==
  IF s.seen.loaded THEN PositionService_AddTrade_Loaded(s, trade)
  ELSE PositionService_AddTrade(s, trade)

---------------------------------------------------------------------------
\* Trade booking service.

TradeBookingService_OnMessage(s, trade) ==
  LET key == trade.tradeId
      s1 == [s EXCEPT !.tradeMap = Put(@, key, trade)]
  IN Notify(s1, Listeners.tradeBooking, trade)

\* Fault injection: BookTrade hands the trade to the listeners twice.
TradeBookingService_BookTrade_Twice(s, trade) ==
  Notify(Notify(s, Listeners.tradeBooking, trade),
         Listeners.tradeBooking, trade)

\* Fault injection: BookTrade stores the trade as OnMessage does.
TradeBookingService_BookTrade_Stores(s, trade) ==
  TradeBookingService_OnMessage(s, trade)

TradeBookingService_BookTrade(s, trade) ==
  Notify(s, Listeners.tradeBooking, trade)

\* Fault injection: the book is the one of the count before the increment.
TradeBookingListener_Book_CountBefore(count) ==
  CASE CMod(count, 3) = 1 -> "TRSY1"
    [] CMod(count, 3) = 2 -> "TRSY2"
    [] CMod(count, 3) = 0 -> "TRSY3"

\* switch (count%3) on the count already incremented.
TradeBookingListener_Book(count) ==
  CASE CMod(count, 3) = 0 -> "TRSY1"
    [] CMod(count, 3) = 1 -> "TRSY2"
    [] CMod(count, 3) = 2 -> "TRSY3"

\* Fault injection: the Trade carries the visible quantity only.
TradeBookingListener_ProcessAdd_VisibleOnly(s, order) ==
  LET side == CASE order.side = "BID" -> "BUY"
                [] order.side = "OFFER" -> "SELL"
      count == s.tbCount + 1
      book == TradeBookingListener_Book(count)
      trade == [product |-> order.product, tradeId |-> order.orderId,
                price |-> order.price, book |-> book,
                quantity |-> order.visibleQuantity, side |-> side]
  IN TradeBookingService_BookTrade([s EXCEPT !.tbCount = count], trade)

TradeBookingListener_ProcessAdd(s, order) ==
  LET quantity == order.visibleQuantity + order.hiddenQuantity
      side == CASE order.side = "BID" -> "BUY"
                [] order.side = "OFFER" -> "SELL"
      count == s.tbCount + 1
      book == TradeBookingListener_Book(count)
      trade == [product |-> order.product, tradeId |-> order.orderId,
                price |-> order.price, book |-> book,
                quantity |-> quantity, side |-> side]
  IN TradeBookingService_BookTrade([s EXCEPT !.tbCount = count], trade)

---------------------------------------------------------------------------
\* Execution service and its outbound socket.

ExecutionOutputConnector_Publish(s, order, market) ==
  IF s.execUp
    THEN Log([s EXCEPT !.execSink =
                         Append(@, [order |-> order, market |-> market])],
             Ev("Publish", "ExecutionOutputConnector", order))
    ELSE [s EXCEPT !.threw = TRUE]

ExecutionService_ExecuteOrder(s, order, market) ==
  ExecutionOutputConnector_Publish(
    Log(s, Ev("ExecuteOrder", "ExecutionService", order)), order, market)

ExecutionService_AddExecutionOrder(s, algoExecution) ==
  LET executionOrder == algoExecution.executionOrder
      orderId == executionOrder.orderId
      s1 == Log([s EXCEPT !.executionOrderMap =
                             Put(Erase(@, orderId), orderId, executionOrder)],
                Ev("insert", "executionOrderMap", executionOrder))
  IN Notify(s1, Listeners.execution, executionOrder)

ExecutionServiceListener_ProcessAdd(s, algoExecution) ==
  LET s1 == ExecutionService_AddExecutionOrder(s, algoExecution)
  IN IF s1.threw THEN s1
     ELSE ExecutionService_ExecuteOrder(s1, algoExecution.executionOrder,
                                        algoExecution.market)

---------------------------------------------------------------------------
\* Algo execution service.

\* max_element / min_element return the first of equal elements.
OrderBook_GetBestBidOffer(orderBook) ==
  LET bids == orderBook.bidStack
      offers == orderBook.offerStack
      bestBid == CHOOSE i \in DOMAIN bids :
                   /\ \A j \in DOMAIN bids : bids[j].price <= bids[i].price
                   /\ \A j \in 1..(i - 1) : bids[j].price < bids[i].price
      bestOffer == CHOOSE i \in DOMAIN offers :
                     /\ \A j \in DOMAIN offers :
                          offers[i].price <= offers[j].price
                     /\ \A j \in 1..(i - 1) : offers[i].price < offers[j].price
  IN [bidOrder |-> bids[bestBid], offerOrder |-> offers[bestOffer]]

\* Fault injection: the quantity is read from the side whose price is taken.
AlgoExecutionService_Aggress_SameSide(count, bidOffer) ==
  IF CMod(count, 2) = 0
    THEN [side |-> "BID", price |-> bidOffer.offerOrder.price,
          quantity |-> bidOffer.offerOrder.quantity]
    ELSE [side |-> "OFFER", price |-> bidOffer.bidOrder.price,
          quantity |-> bidOffer.bidOrder.quantity]

\* The body of the spread test: the parity of count picks the side, the
\* price is the best price of the opposite side, the quantity the one of
\* the own side.
AlgoExecutionService_Aggress(count, bidOffer) ==
  IF CMod(count, 2) = 0
    THEN [side |-> "BID", price |-> bidOffer.offerOrder.price,
          quantity |-> bidOffer.bidOrder.quantity]
    ELSE [side |-> "OFFER", price |-> bidOffer.bidOrder.price,
          quantity |-> bidOffer.offerOrder.quantity]

\* Fault injection: the count moves only when the spread test passes.
AlgoExecutionService_AlgoExecuteOrder_CountWhenTight(s, orderBook) ==
  LET key == orderBook.product
      orderId == s.rand.orderId
      parentOrderId == s.rand.parentOrderId
      bidOffer == OrderBook_GetBestBidOffer(orderBook)
      bidPrice == bidOffer.bidOrder.price
      offerPrice == bidOffer.offerOrder.price
      tight == offerPrice - bidPrice <= TightSpread
      locals == IF tight
                  THEN AlgoExecutionService_Aggress(s.aeCount, bidOffer)
                  ELSE s.uninit
      side == locals.side
      price == locals.price
      quantity == locals.quantity
      executionOrder ==
        [product |-> key, side |-> side, orderId |-> orderId,
         orderType |-> "MARKET", price |-> price,
         visibleQuantity |-> quantity, hiddenQuantity |-> 0,
         parentOrderId |-> parentOrderId, isChildOrder |-> FALSE]
      algoExecution == [executionOrder |-> executionOrder,
                        market |-> "BROKERTEC"]
      s1 == [s EXCEPT !.aeCount = IF tight THEN @ + 1 ELSE @,
                      !.algoExecutionMap =
                         Put(Erase(@, key), key, algoExecution)]
  IN Notify(s1, Listeners.algoExecution, algoExecution)

\* side, price and quantity are assigned only inside the spread test; when
\* it fails the order is built from whatever the three locals hold
\* (s.uninit).  The order is built and sent to the listeners either way.
AlgoExecutionService_AlgoExecuteOrder(s, orderBook) ==
  LET key == orderBook.product
      orderId == s.rand.orderId
      parentOrderId == s.rand.parentOrderId
      bidOffer == OrderBook_GetBestBidOffer(orderBook)
      bidPrice == bidOffer.bidOrder.price
      offerPrice == bidOffer.offerOrder.price
      tight == offerPrice - bidPrice <= TightSpread
      locals == IF tight
                  THEN AlgoExecutionService_Aggress(s.aeCount, bidOffer)
                  ELSE s.uninit
      side == locals.side
      price == locals.price
      quantity == locals.quantity
      executionOrder ==
        [product |-> key, side |-> side, orderId |-> orderId,
         orderType |-> "MARKET", price |-> price,
         visibleQuantity |-> quantity, hiddenQuantity |-> 0,
         parentOrderId |-> parentOrderId, isChildOrder |-> FALSE]
      algoExecution == [executionOrder |-> executionOrder,
                        market |-> "BROKERTEC"]
      s1 == [s EXCEPT !.aeCount = @ + 1,
                      !.algoExecutionMap =
                         Put(Erase(@, key), key, algoExecution)]
  IN Notify(s1, Listeners.algoExecution, algoExecution)

AlgoExecutionServiceListener_ProcessAdd(s, orderBook) ==
  AlgoExecutionService_AlgoExecuteOrder(s, orderBook)

---------------------------------------------------------------------------
\* Market data service.

MarketDataService_OnMessage(s, orderBook) ==
  LET key == orderBook.product
      s1 == [s EXCEPT !.orderBookMap = Put(Erase(@, key), key, orderBook)]
  IN Notify(s1, Listeners.marketData, orderBook)

\* Inserts an empty book for a product that has none.
MarketDataService_GetData(s, key) ==
  IF ~Has(s.orderBookMap, key)
    THEN [s EXCEPT !.orderBookMap =
            Put(@, key, [product |-> key, bidStack |-> <<>>,
                         offerStack |-> <<>>])]
    ELSE s

PricesOf(stack) == {stack[i].price : i \in DOMAIN stack}

\* What the loop over a stack leaves in the unordered_map at `price'.
RECURSIVE QuantityAt(_, _)
QuantityAt(stack, price) ==
  IF stack = <<>> THEN 0
  ELSE (IF Head(stack).price = price THEN Head(stack).quantity ELSE 0)
         + QuantityAt(Tail(stack), price)

\* The orders in which iterating an unordered_map with these keys can
\* yield them: the standard leaves the order open.
UnorderedIterations(keys) ==
  {f \in [1..Cardinality(keys) -> keys] :
     \A i, j \in 1..Cardinality(keys) : i /= j => f[i] /= f[j]}

\* Fault injection: the stacks are left as they are, nothing is combined.
MarketDataService_AggregateDepth_NoMerge(s, productId) == s

\* s.iter is the order in which the two unordered_maps are iterated.
MarketDataService_AggregateDepth(s, productId) ==
  LET orderBook == s.orderBookMap[productId]
      aggBid == [i \in 1..Len(s.iter.bid) |->
                   [price |-> s.iter.bid[i],
                    quantity |-> QuantityAt(orderBook.bidStack, s.iter.bid[i]),
                    side |-> "BID"]]
      aggOffer == [i \in 1..Len(s.iter.offer) |->
                     [price |-> s.iter.offer[i],
                      quantity |->
                        QuantityAt(orderBook.offerStack, s.iter.offer[i]),
                      side |-> "OFFER"]]
  IN [s EXCEPT !.orderBookMap[productId] =
                  [product |-> productId, bidStack |-> aggBid,
                   offerStack |-> aggOffer]]

\* The stacks of the stored book with the levels of a line pushed on them.
\* Fault injection: the levels of the line replace those of the book.
PushLevels_Replace(orderBook, snapshot) ==
  [orderBook EXCEPT !.bidStack = snapshot.bidStack,
                    !.offerStack = snapshot.offerStack]

PushLevels(orderBook, snapshot) ==
  [orderBook EXCEPT !.bidStack = @ \o snapshot.bidStack,
                    !.offerStack = @ \o snapshot.offerStack]

\* One line of the market data feed: the levels go onto the stacks of the
\* book GetData returns, which is the stored one; the book is aggregated in
\* place and its copy handed to OnMessage.
\* One line of the market data feed.  snapshot holds the levels the loop
\* pushes before it ends: all five of a well-formed line; those before the
\* level whose size stol() rejects (fault "size": std::invalid_argument
\* leaves handle_read and io_service.run(), Subscribe logs it and returns);
\* those a short line has (fault "short": lineData[4*k+2] is then read past
\* the end of the vector, which is undefined: s.ub says whether the garbage
\* makes stol() throw or the read ends the process).
MarketDataConnector_handle_read(s, snapshot) ==
  LET productId == snapshot.product
      s1 == Log(MarketDataService_GetData(s, productId),
                Ev("handle_read", "MarketDataConnector", snapshot))
      s2 == [s1 EXCEPT !.orderBookMap[productId] = PushLevels(@, snapshot)]
      s3 == MarketDataService_AggregateDepth(s2, productId)
      thrown == Log([s2 EXCEPT !.threw = TRUE], Ev("log", "ERROR", "stol"))
  IN CASE snapshot.fault = "none" ->
            MarketDataService_OnMessage(s3, s3.orderBookMap[productId])
       [] snapshot.fault = "size" -> thrown
       [] snapshot.fault = "short" ->
            IF s.ub = "throws" THEN thrown
            ELSE [s2 EXCEPT !.threw = TRUE, !.crashed = TRUE]

---------------------------------------------------------------------------
\* Inquiry service.  The Inquiry object is passed by reference through
\* OnMessage, Publish and SubscribeUpdate: s.data is that object.

\* inquiryMap[inquiryId] of an absent key inserts a value-initialised
\* Inquiry: empty strings, zeros, and the first enumerators.
DefaultInquiry ==
  [inquiryId |-> "", product |-> "", side |-> "BUY", quantity |-> 0,
   price |-> 0, state |-> "RECEIVED"]

RECURSIVE InquiryService_OnMessage(_)

InquiryConnector_SubscribeUpdate(s) == InquiryService_OnMessage(s)

\* Fault injection: the connector sends the quoted inquiry back twice.
InquiryConnector_Publish_Twice(s) ==
  IF s.data.state = "RECEIVED"
    THEN InquiryConnector_SubscribeUpdate(
           InquiryConnector_SubscribeUpdate(
             [s EXCEPT !.data.state = "QUOTED"]))
    ELSE s

InquiryConnector_Publish(s) ==
  IF s.data.state = "RECEIVED"
    THEN InquiryConnector_SubscribeUpdate([s EXCEPT !.data.state = "QUOTED"])
    ELSE s

\* Fault injection: the final step stores the inquiry whatever its state.
InquiryService_OnMessage_KeepDone(s) ==
  LET state == s.data.state
      inquiryId == s.data.inquiryId
      s0 == Log(s, Ev("OnMessage", "InquiryService", s.data))
      s1 == CASE state = "RECEIVED" -> InquiryConnector_Publish(s0)
              [] state = "QUOTED" ->
                   LET done == [s0.data EXCEPT !.state = "DONE"]
                   IN Notify([s0 EXCEPT !.data = done,
                                        !.inquiryMap =
                                           Put(Erase(@, inquiryId),
                                               inquiryId, done)],
                             Listeners.inquiry, done)
              [] OTHER -> s0
      s2 == [s1 EXCEPT !.inquiryMap = Put(@, s1.data.inquiryId, s1.data)]
      s3 == Notify(s2, Listeners.inquiry, s2.data)
  IN Log(s3, Ev("return", "InquiryService", s3.data))

\* Fault injection: a DONE inquiry is removed without a second notification.
InquiryService_Finish_QuietWhenDone(s) ==
  IF s.data.state = "DONE"
    THEN [s EXCEPT !.inquiryMap = Erase(@, s.data.inquiryId)]
    ELSE Notify([s EXCEPT !.inquiryMap = Put(@, s.data.inquiryId, s.data)],
                Listeners.inquiry, s.data)

\* Fault injection: only a RECEIVED inquiry is kept, any other is removed.
InquiryService_Finish_KeepReceivedOnly(s) ==
  LET s2 == IF s.data.state /= "RECEIVED"
              THEN [s EXCEPT !.inquiryMap = Erase(@, s.data.inquiryId)]
              ELSE [s EXCEPT !.inquiryMap =
                                Put(@, s.data.inquiryId, s.data)]
  IN Notify(s2, Listeners.inquiry, s2.data)

\* The end of OnMessage, after the switch: a DONE inquiry is removed from
\* the map, any other is stored; the listeners are notified either way.
InquiryService_Finish(s) ==
  LET s2 == IF s.data.state = "DONE"
              THEN [s EXCEPT !.inquiryMap = Erase(@, s.data.inquiryId)]
              ELSE [s EXCEPT !.inquiryMap =
                                Put(@, s.data.inquiryId, s.data)]
  IN Notify(s2, Listeners.inquiry, s2.data)

InquiryService_OnMessage(s) ==
  LET state == s.data.state
      inquiryId == s.data.inquiryId
      s0 == Log(s, Ev("OnMessage", "InquiryService", s.data))
      s1 == CASE state = "RECEIVED" -> InquiryConnector_Publish(s0)
              [] state = "QUOTED" ->
                   LET done == [s0.data EXCEPT !.state = "DONE"]
                   IN Notify([s0 EXCEPT !.data = done,
                                        !.inquiryMap =
                                           Put(Erase(@, inquiryId),
                                               inquiryId, done)],
                             Listeners.inquiry, done)
              [] OTHER -> s0
      s3 == InquiryService_Finish(s1)
  IN Log(s3, Ev("return", "InquiryService", s3.data))

\* Fault injection: SendQuote also marks the inquiry QUOTED.
InquiryService_SendQuote_MarksQuoted(s, inquiryId, price) ==
  LET inquiry == IF Has(s.inquiryMap, inquiryId) THEN s.inquiryMap[inquiryId]
                 ELSE DefaultInquiry
      quoted == [inquiry EXCEPT !.price = price, !.state = "QUOTED"]
  IN Notify([s EXCEPT !.inquiryMap = Put(@, inquiryId, quoted)],
            Listeners.inquiry, quoted)

InquiryService_SendQuote(s, inquiryId, price) ==
  LET inquiry == IF Has(s.inquiryMap, inquiryId) THEN s.inquiryMap[inquiryId]
                 ELSE DefaultInquiry
      quoted == [inquiry EXCEPT !.price = price]
  IN Notify([s EXCEPT !.inquiryMap = Put(@, inquiryId, quoted)],
            Listeners.inquiry, quoted)

InquiryService_RejectInquiry(s, inquiryId) ==
  LET inquiry == IF Has(s.inquiryMap, inquiryId) THEN s.inquiryMap[inquiryId]
                 ELSE DefaultInquiry
  IN [s EXCEPT !.inquiryMap =
                  Put(@, inquiryId, [inquiry EXCEPT !.state = "REJECTED"])]

---------------------------------------------------------------------------
\* for (auto& l : listeners) l->ProcessAdd(data): the virtual call, by the
\* listener registered.  An exception thrown by a listener leaves the loop.

ProcessAdd(l, s, data) ==
  CASE l = "AlgoStreamingServiceListener" ->
         AlgoStreamingServiceListener_ProcessAdd(s, data)
    [] l = "GUIServiceListener" -> GUIServiceListener_ProcessAdd(s, data)
    [] l = "StreamingServiceListener" ->
         StreamingServiceListener_ProcessAdd(s, data)
    [] l = "AlgoExecutionServiceListener" ->
         AlgoExecutionServiceListener_ProcessAdd(s, data)
    [] l = "ExecutionServiceListener" ->
         ExecutionServiceListener_ProcessAdd(s, data)
    [] l = "TradeBookingListener" -> TradeBookingListener_ProcessAdd(s, data)
    [] l = "PositionServiceListener" ->
         PositionServiceListener_ProcessAdd(s, data)
    [] l = "RiskServiceListener" -> RiskServiceListener_ProcessAdd(s, data)
    [] l = "HistoricalPositionListener" ->
         HistoricalDataServiceListener_ProcessAdd(s, "POSITION", data)
    [] l = "HistoricalRiskListener" ->
         HistoricalDataServiceListener_ProcessAdd(s, "RISK", data)
    [] l = "HistoricalExecutionListener" ->
         HistoricalDataServiceListener_ProcessAdd(s, "EXECUTION", data)
    [] l = "HistoricalStreamingListener" ->
         HistoricalDataServiceListener_ProcessAdd(s, "STREAMING", data)
    [] l = "HistoricalInquiryListener" ->
         HistoricalDataServiceListener_ProcessAdd(s, "INQUIRY", data)

Notify(s, ls, data) ==
  IF ls = <<>> \/ s.threw THEN s
  ELSE Notify(ProcessAdd(Head(ls), Log(s, Ev("ProcessAdd", Head(ls), data)),
                         data),
              Tail(ls), data)

---------------------------------------------------------------------------
\* The state.

\* A thread between two records, and a thread that has loaded what it needs
\* of the position map and has not written yet.
Idle == [pc |-> "idle", positionMap |-> EmptyMap]

Loaded(seen) == [pc |-> "AddTrade", positionMap |-> seen]

Init ==
  /\ priceMap = EmptyMap
  /\ algoStreamMap = EmptyMap
  /\ asCount \in UninitLong       \* the constructor leaves count unset
  /\ priceStreamMap = EmptyMap
  /\ streamSink = <<>>
  /\ guiStartTime = 0             \* system_clock::now() at construction
  /\ orderBookMap = EmptyMap
  /\ algoExecutionMap = EmptyMap
  /\ aeCount = 0
  /\ executionOrderMap = EmptyMap
  /\ execSink = <<>>
  /\ tradeMap = EmptyMap
  /\ tbCount = 0
  /\ positionMap = EmptyMap
  /\ pv01Map = EmptyMap
  /\ inquiryMap = EmptyMap
  /\ histMap = [type \in ServiceTypes |-> EmptyMap]
  /\ files = [f \in FileNames |-> <<>>]
  /\ now = 0
  /\ alive = [f \in Feeds |-> TRUE]
  /\ nEvents = 0
  /\ last = [kind |-> "none", input |-> <<>>, returned |-> TRUE]
  /\ trace = <<>>
  /\ history = <<>>
  /\ arrivals = <<>>
  /\ running = [t \in Threads |-> Idle]
  /\ socket = [f \in SocketFeeds |-> Listening]

\* The working record a root event starts from: the state, an empty trace,
\* and what the environment decides during the event.
Start ==
  [priceMap |-> priceMap, algoStreamMap |-> algoStreamMap,
   asCount |-> asCount, priceStreamMap |-> priceStreamMap,
   streamSink |-> streamSink, guiStartTime |-> guiStartTime,
   orderBookMap |-> orderBookMap, algoExecutionMap |-> algoExecutionMap,
   aeCount |-> aeCount, executionOrderMap |-> executionOrderMap,
   execSink |-> execSink, tradeMap |-> tradeMap, tbCount |-> tbCount,
   positionMap |-> positionMap, pv01Map |-> pv01Map,
   inquiryMap |-> inquiryMap, histMap |-> histMap, files |-> files,
   now |-> now, trace |-> <<>>, threw |-> FALSE,
   streamUp |-> TRUE, execUp |-> TRUE,
   rand |-> [orderId |-> "", parentOrderId |-> ""],
   uninit |-> [side |-> "BID", price |-> 0, quantity |-> 0],
   iter |-> [bid |-> <<>>, offer |-> <<>>],
   ub |-> "throws", crashed |-> FALSE,
   seen |-> [loaded |-> FALSE, positionMap |-> EmptyMap, outcome |-> "stale"],
   data |-> DefaultInquiry, socket |-> socket]

\* The state after the root event `kind' on `feed' ended in s.  An exception
\* that leaves the handler ends the feed's adapter.
CommitServices(s, feed) ==
  /\ priceMap' = s.priceMap
  /\ algoStreamMap' = s.algoStreamMap
  /\ asCount' = s.asCount
  /\ priceStreamMap' = s.priceStreamMap
  /\ streamSink' = s.streamSink
  /\ guiStartTime' = s.guiStartTime
  /\ orderBookMap' = s.orderBookMap
  /\ algoExecutionMap' = s.algoExecutionMap
  /\ aeCount' = s.aeCount
  /\ executionOrderMap' = s.executionOrderMap
  /\ execSink' = s.execSink
  /\ tradeMap' = s.tradeMap
  /\ tbCount' = s.tbCount
  /\ positionMap' = s.positionMap
  /\ pv01Map' = s.pv01Map
  /\ inquiryMap' = s.inquiryMap
  /\ histMap' = s.histMap
  /\ files' = s.files
  /\ now' = s.now
  /\ alive' = CASE s.crashed -> [f \in Feeds |-> FALSE]
                 [] s.threw /\ feed \in Feeds ->
                      [alive EXCEPT ![feed] = FALSE]
                 [] OTHER -> alive
  /\ running' = IF feed \in Threads THEN [running EXCEPT ![feed] = Idle]
                ELSE running
  /\ socket' = s.socket

Commit(s, feed, kind, input) ==
  /\ CommitServices(s, feed)
  /\ nEvents' = nEvents + 1
  /\ last' = [kind |-> kind, input |-> input, returned |-> ~s.threw]
  /\ trace' = s.trace
  /\ history' = history \o s.trace
  /\ arrivals' = IF kind = "Price" THEN Append(arrivals, s.now) ELSE arrivals

\* The state after a step of a socket feed ended in s: each line it handed
\* to the service is a root event.
CommitSocket(s, feed, kind) ==
  /\ CommitServices(s, feed)
  /\ nEvents' = nEvents + Len(s.socket[feed].delivered)
                         - Len(socket[feed].delivered)
  /\ last' = [kind |-> kind, input |-> <<>>, returned |-> ~s.threw]
  /\ trace' = s.trace
  /\ history' = history \o s.trace
  /\ arrivals' = arrivals

---------------------------------------------------------------------------
\* The socket feeds: PriceDataConnector and TradeDataConnector.

\* std::stod and std::stol of the numbers the feed lines hold; prices and
\* spreads are in units of 1/512.
stod(str) ==
  CASE str = "99" -> 99 * 512
    [] str = "100" -> 100 * 512
    [] str = "00" -> 0
    [] str = "31" -> 31 * 512
    [] str = "0" -> 0
    [] str = "2" -> 2 * 512
    [] str = "3" -> 3 * 512
    [] str = "4" -> 4 * 512
    [] str = "6" -> 6 * 512
    [] str = "7" -> 7 * 512
    [] str = "0.0078125" -> 4
    [] str = "0.015625" -> 8

stol(str) ==
  CASE str = "1000000" -> 1000000
    [] str = "2000000" -> 2000000

\* priceStr.substr(0, pos), substr(pos+1, 2) and substr(pos+3, 1), pos being
\* where the '-' is.
FractionalParts(priceStr) ==
  CASE priceStr = "99-316" -> <<"99", "31", "6">>
    [] priceStr = "99-317" -> <<"99", "31", "7">>
    [] priceStr = "99-31+" -> <<"99", "31", "+">>
    [] priceStr = "100-000" -> <<"100", "00", "0">>
    [] priceStr = "100-002" -> <<"100", "00", "2">>
    [] priceStr = "100-003" -> <<"100", "00", "3">>

\* convertPrice of the fractional notation xxx-yyz: xxx + yy/32 + z/256,
\* z = '+' standing for 4.
convertPrice(priceStr) ==
  LET parts == FractionalParts(priceStr)
      str3 == IF parts[3] = "+" THEN "4" ELSE parts[3]
  IN stod(parts[1]) + stod(parts[2]) \div 32 + stod(str3) \div 256

\* Fault injection: the search for the last newline answers past the end
\* of the data, so the whole buffer is consumed and processed.
rfind_PastEnd(data, ch) == Len(data) + 1

\* data.rfind(ch): the index of the last ch, 0 for npos.
rfind(data, ch) ==
  LET at == {i \in DOMAIN data : data[i] = ch}
  IN IF at = {} THEN 0 ELSE CHOOSE i \in at : \A j \in at : j <= i

\* The std::getline loop over a stringstream of data: the texts between the
\* delimiters, the last one only when it is not empty.
RECURSIVE getline(_, _)
getline(data, delim) ==
  LET at == {i \in DOMAIN data : data[i] = delim}
      first == CHOOSE i \in at : \A j \in at : i <= j
  IN IF data = <<>> THEN <<>>
     ELSE IF at = {} THEN <<data>>
     ELSE <<SubSeq(data, 1, first - 1)>>
            \o getline(SubSeq(data, first + 1, Len(data)), delim)

\* The words of a line: each field of the text is one byte of the model.
Words(line) ==
  LET words == getline(line, ",")
  IN [i \in DOMAIN words |-> IF words[i] = <<>> THEN "" ELSE words[i][1]]

\* The body of the loop of PriceDataConnector::handle_read for one line.
\* lineData[4] of a shorter line is read past the end of the vector.
PriceDataConnector_ReadLine(s, line) ==
  LET lineData == Words(line)
      bid == convertPrice(lineData[3])
      ask == convertPrice(lineData[4])
      price == [product |-> lineData[2], mid |-> (bid + ask) \div 2,
                spread |-> stod(lineData[5])]
      s1 == IF getProductObject_Known(price.product)
              THEN [s EXCEPT !.socket["price"].delivered = Append(@, price)]
              ELSE s
  IN IF Len(lineData) < 5
       THEN IF s.ub = "throws"
              THEN Log([s EXCEPT !.threw = TRUE], Ev("log", "ERROR", "stod"))
              ELSE [s EXCEPT !.threw = TRUE, !.crashed = TRUE]
       ELSE PriceDataConnector_handle_read(s1, price)

\* The body of the loop of TradeDataConnector::handle_read for one line.
TradeDataConnector_ReadLine(s, line) ==
  LET tokens == Words(line)
      trade == [product |-> tokens[1], tradeId |-> tokens[2],
                price |-> convertPrice(tokens[3]), book |-> tokens[4],
                quantity |-> stol(tokens[5]),
                side |-> IF tokens[6] = "BUY" THEN "BUY" ELSE "SELL"]
      s1 == [s EXCEPT !.socket["trade"].delivered = Append(@, trade)]
  IN CASE Len(tokens) < 6 ->
            IF s.ub = "throws"
              THEN Log([s EXCEPT !.threw = TRUE], Ev("log", "ERROR", "stol"))
              ELSE [s EXCEPT !.threw = TRUE, !.crashed = TRUE]
       [] ~getProductObject_Known(tokens[1]) ->
            Log([s EXCEPT !.threw = TRUE],
                Ev("log", "ERROR", <<"Unknown CUSIP", tokens[1]>>))
       [] OTHER -> TradeBookingService_OnMessage(s1, trade)

\* The while loop of handle_read over the lines of data; an exception
\* leaves it.
RECURSIVE DataConnector_ReadLines(_, _, _)
DataConnector_ReadLines(s, feed, lines) ==
  IF lines = <<>> \/ s.threw THEN s
  ELSE LET s1 == IF feed = "price"
                   THEN PriceDataConnector_ReadLine(s, Head(lines))
                   ELSE TradeDataConnector_ReadLine(s, Head(lines))
       IN DataConnector_ReadLines(s1, feed, Tail(lines))

\* handle_read without an error code, the same text in both connectors: the
\* streambuf is consumed up to its last newline, what was before it is split
\* into lines and each line is handed on; what is behind it stays in the
\* streambuf for the next async_read_until.
DataConnector_handle_read(s, feed) ==
  LET request == s.socket[feed].request
      last_newline == rfind(request, "\n")
      data == IF last_newline /= 0
                THEN SubSeq(request, 1, last_newline - 1) ELSE <<>>
      rest == IF last_newline /= 0
                THEN SubSeq(request, last_newline + 1, Len(request))
                ELSE request
      s1 == [s EXCEPT !.socket[feed].request = rest]
  IN DataConnector_ReadLines(s1, feed, getline(data, "\n"))

---------------------------------------------------------------------------
\* Root events.

\* A Price of the price feed.  The clock is read only on this path; what it
\* moved by since the previous Price is an input of the event.
PriceEvent(cap, scope) ==
  /\ alive["price"]
  /\ nEvents < cap
  /\ \E p \in scope.products, q \in scope.quotes, d \in scope.delays,
        up \in BOOLEAN :
       LET price == [product |-> p, mid |-> q.mid, spread |-> q.spread]
           s0 == [Start EXCEPT !.now = now + d, !.streamUp = up]
       IN Commit(PriceDataConnector_handle_read(s0, price),
                 "price", "Price", price)

\* What the three unassigned locals of AlgoExecuteOrder can hold when they
\* are read, which is when the spread test fails.
UninitReads(orderBook) ==
  LET bidOffer == OrderBook_GetBestBidOffer(orderBook)
  IN IF bidOffer.offerOrder.price - bidOffer.bidOrder.price <= TightSpread
       THEN {[side |-> "BID", price |-> 0, quantity |-> 0]}
       ELSE UninitOrders

\* A line of the market data feed, handled from the working record start.
BookLine(start, scope) ==
     \E p \in scope.products, b \in scope.shapes, id \in scope.orderIds,
        pid \in ParentIds, up \in BOOLEAN, f \in scope.faults :
       LET snapshot == [product |-> p,
                        bidStack |-> SubSeq(b.bidStack, 1, f.levels),
                        offerStack |-> SubSeq(b.offerStack, 1, f.levels),
                        fault |-> f.fault]
           raw == PushLevels(
                    MarketDataService_GetData(start, p).orderBookMap[p],
                    snapshot)
       IN IF f.fault = "none"
            THEN \E bid \in UnorderedIterations(PricesOf(raw.bidStack)),
                    offer \in UnorderedIterations(PricesOf(raw.offerStack)),
                    u \in UninitReads(raw) :
                   LET s0 == [start EXCEPT
                                !.execUp = up, !.uninit = u,
                                !.iter = [bid |-> bid, offer |-> offer],
                                !.rand = [orderId |-> id,
                                          parentOrderId |-> pid]]
                       s1 == MarketDataConnector_handle_read(s0, snapshot)
                   IN Commit(s1, "market", "OrderBook", s1.orderBookMap[p])
            ELSE \E ub \in UndefinedReads :
                   LET s0 == [start EXCEPT !.ub = ub]
                       s1 == MarketDataConnector_handle_read(s0, snapshot)
                   IN Commit(s1, "market", "BadLine", snapshot)

BookEvent(cap, scope) ==
  /\ alive["market"]
  /\ running["market"] = Idle
  /\ nEvents < cap
  /\ BookLine(Start, scope)

\* A Trade of the trade feed, handled from the working record start.
FeedTrade(start, scope) ==
     \E p \in scope.products, t \in scope.trades :
       LET trade == [product |-> p, tradeId |-> t.tradeId, price |-> t.price,
                     book |-> t.book, quantity |-> t.quantity,
                     side |-> t.side]
       IN Commit(TradeBookingService_OnMessage(start, trade),
                 "trade", "Trade", trade)

TradeEvent(cap, scope) ==
  /\ alive["trade"]
  /\ running["trade"] = Idle
  /\ nEvents < cap
  /\ FeedTrade(Start, scope)

\* The two feed adapters as threads.  Up to its finds and loads in AddTrade
\* a record touches only what its own thread writes, so a thread takes two
\* steps per record: it loads what AddTrade reads of the position map, and
\* later does everything else, writing on the map as it is by then.
AdapterLoad(cap) ==
  \E t \in Threads :
    /\ alive[t]
    /\ running[t] = Idle
    /\ nEvents + Cardinality({u \in Threads : running[u] /= Idle}) < cap
    /\ running' = [running EXCEPT ![t] = Loaded(positionMap)]
    /\ UNCHANGED <<priceMap, algoStreamMap, asCount, priceStreamMap,
                   streamSink, guiStartTime, orderBookMap, algoExecutionMap,
                   aeCount, executionOrderMap, execSink, tradeMap, tbCount,
                   positionMap, pv01Map, inquiryMap, histMap, files, now,
                   alive, nEvents, last, trace, history, arrivals, socket>>

\* The working record of a thread that has loaded.
Resume(t, outcome) ==
  [Start EXCEPT !.seen = [loaded |-> TRUE,
                          positionMap |-> running[t].positionMap,
                          outcome |-> outcome]]

TradeStore(scope) ==
  /\ running["trade"] /= Idle
  /\ \E outcome \in RaceOutcomes : FeedTrade(Resume("trade", outcome), scope)

BookStore(scope) ==
  /\ running["market"] /= Idle
  /\ \E outcome \in RaceOutcomes : BookLine(Resume("market", outcome), scope)

\* The texts a peer can send on one connection: up to MaxLines lines, each
\* with its newline, and then nothing, or the beginning of its first line
\* again.
RECURSIVE FeedTexts(_, _)
FeedTexts(feed, n) ==
  IF n = 0 THEN {<<>>}
  ELSE LET shorter == FeedTexts(feed, n - 1)
       IN shorter \cup {Append(ls, l) : ls \in shorter, l \in FeedLines[feed]}

RECURSIVE Bytes(_)
Bytes(lines) ==
  IF lines = <<>> THEN <<>>
  ELSE Head(lines).text \o <<"\n">> \o Bytes(Tail(lines))

\* start_accept: a peer connects and a streambuf is made for it.  What the
\* peer is going to send is drawn here; one connection is followed.
SocketAccept(feed) ==
  /\ alive[feed]
  /\ \A f \in SocketFeeds : socket[f].state = "listening"
  /\ \E lines \in FeedTexts(feed, MaxLines) \ {<<>>}, n \in FragmentLengths :
       LET c == [state |-> "open",
                 wire |-> Bytes(lines) \o SubSeq(lines[1].text, 1, n),
                 request |-> <<>>, arrived |-> <<>>, sent |-> lines,
                 delivered |-> <<>>]
       IN CommitSocket([Start EXCEPT !.socket[feed] = c], feed, "Accept")

\* async_read_until: some of the bytes on the wire reach the streambuf; once
\* it holds a newline, handle_read is called.
SocketRead(feed) ==
  /\ alive[feed]
  /\ socket[feed].state = "open"
  /\ socket[feed].wire /= <<>>
  /\ \E n \in 1..Len(socket[feed].wire) :
       LET c == socket[feed]
           chunk == SubSeq(c.wire, 1, n)
           s0 == [Start EXCEPT
                    !.socket[feed].wire = SubSeq(c.wire, n + 1, Len(c.wire)),
                    !.socket[feed].request = c.request \o chunk,
                    !.socket[feed].arrived = c.arrived \o chunk]
       IN IF rfind(s0.socket[feed].request, "\n") /= 0
            THEN \E up \in BOOLEAN, ub \in UndefinedReads :
                   CommitSocket(
                     DataConnector_handle_read(
                       [s0 EXCEPT !.streamUp = up, !.ub = ub], feed),
                     feed, "Read")
            ELSE CommitSocket(s0, feed, "Read")

\* The peer closes after its last byte: handle_read is called with an error
\* code and deletes the streambuf and the socket.
SocketClose(feed) ==
  /\ alive[feed]
  /\ socket[feed].state = "open"
  /\ socket[feed].wire = <<>>
  /\ CommitSocket([Start EXCEPT !.socket[feed].state = "closed",
                                !.socket[feed].request = <<>>],
                  feed, "Close")

\* An Inquiry of the inquiry feed.
InquiryEvent(cap) ==
  /\ alive["inquiry"]
  /\ nEvents < cap
  /\ \E id \in InquiryIds, st \in InquiryStates :
       LET inquiry == [inquiryId |-> id, product |-> "9128283H1",
                       side |-> "BUY", quantity |-> 1000000,
                       price |-> 51200, state |-> st]
       IN Commit(InquiryService_OnMessage([Start EXCEPT !.data = inquiry]),
                 "inquiry", "Inquiry", inquiry)

\* A direct call of InquiryService::SendQuote.
SendQuoteCall(cap) ==
  /\ nEvents < cap
  /\ \E id \in InquiryIds, price \in QuotePrices :
       Commit(InquiryService_SendQuote(Start, id, price), "api", "SendQuote",
              [inquiryId |-> id, price |-> price])

\* A direct call of InquiryService::RejectInquiry.
RejectInquiryCall(cap) ==
  /\ nEvents < cap
  /\ \E id \in InquiryIds :
       Commit(InquiryService_RejectInquiry(Start, id), "api", "RejectInquiry",
              [inquiryId |-> id])

\* An AlgoExecution handed to ExecutionServiceListener::ProcessAdd.
AlgoExecutionAdd(cap) ==
  /\ nEvents < cap
  /\ \E order \in ExecutionOrders, up \in BOOLEAN :
       LET algoExecution == [executionOrder |-> order, market |-> "BROKERTEC"]
           s0 == Log([Start EXCEPT !.execUp = up],
                     Ev("ProcessAdd", "ExecutionServiceListener",
                        algoExecution))
       IN Commit(ExecutionServiceListener_ProcessAdd(s0, algoExecution),
                 "api", "AlgoExecution", algoExecution)

---------------------------------------------------------------------------
\* What the feeds send in a run: the products, the shapes of the market data
\* lines, the trades, and the steps of the clock between Prices.

FullScope ==
  [products |-> Products, shapes |-> BookShapes, trades |-> TradeShapes,
   delays |-> Delays, orderIds |-> OrderIds, quotes |-> Quotes,
   faults |-> WellFormed]

\* One product, and a clock that is past the throttle at every Price.
GraphScope ==
  [products |-> {"912828M80"}, shapes |-> BookShapes,
   trades |-> TradeShapes, delays |-> {301000}, orderIds |-> OrderIds,
   quotes |-> Quotes, faults |-> WellFormed]

\* Both products, with lines of two prices per side 1/128 apart, one kind
\* of trade and one order id.
RotationScope ==
  [products |-> Products,
   shapes |-> {b \in BookShapes : Cardinality(PricesOf(b.bidStack)) = 2},
   trades |-> {t \in TradeShapes : t.tradeId = "T2"},
   delays |-> Delays, orderIds |-> {"Algo0A1B2C3D4E5"}, quotes |-> Quotes,
   faults |-> WellFormed]

\* One product and one quote, with Prices 10 ms apart or past the throttle.
BurstScope ==
  [products |-> {"9128283H1"}, shapes |-> {}, trades |-> {},
   delays |-> {10000, 301000}, orderIds |-> {},
   quotes |-> {q \in Quotes : q.spread = 4}]

\* A market data feed with malformed lines among the others.
ParseScope ==
  [products |-> {"912828M80"}, shapes |-> BookShapes, trades |-> {},
   delays |-> {}, orderIds |-> {"Algo0A1B2C3D4E5"}, quotes |-> {},
   faults |-> WellFormed \cup Malformed]

\* Trades and market data lines on one product.
ThreadScope ==
  [products |-> {"9128283H1"}, shapes |-> BookShapes,
   trades |-> TradeShapes, delays |-> {},
   orderIds |-> {"Algo0A1B2C3D4E5"}, quotes |-> {}, faults |-> WellFormed]

\* Market data lines of both shapes on both products.
MarketScope ==
  [products |-> Products, shapes |-> BookShapes, trades |-> {},
   delays |-> {}, orderIds |-> {"Algo0A1B2C3D4E5"}, quotes |-> {},
   faults |-> WellFormed]

\* One product, lines that pass the spread test, one kind of trade.
FrameScope ==
  [products |-> {"9128283H1"},
   shapes |-> {b \in BookShapes : Cardinality(PricesOf(b.bidStack)) = 2},
   trades |-> {t \in TradeShapes : t.tradeId = "T3"},
   delays |-> {301000}, orderIds |-> {"Algo0A1B2C3D4E5"},
   quotes |-> {q \in Quotes : q.spread = 4}, faults |-> WellFormed]

\* A price feed with a line whose CUSIP is not in the registry.
RegistryScope ==
  [products |-> {"9128283H1"} \cup UnknownCusips, shapes |-> {},
   trades |-> {}, delays |-> {300000, 301000}, orderIds |-> {},
   quotes |-> Quotes]

---------------------------------------------------------------------------
\* Specifications: the whole graph, and each part of it that shares no
\* state with the others, with room for longer runs.

Next ==
  \/ PriceEvent(MaxGraphEvents, GraphScope)
  \/ BookEvent(MaxGraphEvents, GraphScope)
  \/ TradeEvent(MaxGraphEvents, GraphScope)
  \/ InquiryEvent(MaxGraphEvents)
  \/ SendQuoteCall(MaxGraphEvents)
  \/ RejectInquiryCall(MaxGraphEvents)

Spec == Init /\ [][Next]_vars

NextPricing == PriceEvent(MaxEvents, FullScope)

SpecPricing == Init /\ [][NextPricing]_vars

\* The price feed alone, long enough for a burst of Prices.
NextBurst == PriceEvent(MaxBurstEvents, BurstScope)

SpecBurst == Init /\ [][NextBurst]_vars

\* The price feed alone, with lines of an unknown CUSIP among the others.
NextRegistry == PriceEvent(MaxEvents, RegistryScope)

SpecRegistry == Init /\ [][NextRegistry]_vars

NextBooking ==
  \/ BookEvent(MaxGraphEvents, FullScope)
  \/ TradeEvent(MaxGraphEvents, FullScope)

SpecBooking == Init /\ [][NextBooking]_vars

\* Runs of market data lines and trades long enough for the book of the
\* derived trades to come round.
NextRotation ==
  \/ BookEvent(MaxEvents, RotationScope)
  \/ TradeEvent(MaxEvents, RotationScope)

SpecRotation == Init /\ [][NextRotation]_vars

\* The market data feed alone, with malformed lines among the others.
NextParse == BookEvent(MaxEvents, ParseScope)

SpecParse == Init /\ [][NextParse]_vars

\* The execution service and what follows it, fed by the algo and by
\* AlgoExecutions of any content.
NextExecution ==
  \/ BookEvent(MaxGraphEvents, GraphScope)
  \/ AlgoExecutionAdd(MaxGraphEvents)

SpecExecution == Init /\ [][NextExecution]_vars

\* The trade feed and the market data feed each on its own thread.
NextThreads ==
  \/ AdapterLoad(MaxGraphEvents)
  \/ TradeStore(ThreadScope)
  \/ BookStore(ThreadScope)

SpecThreads == Init /\ [][NextThreads]_vars

\* The market data feed alone, on both products.
NextMarket == BookEvent(MaxGraphEvents, MarketScope)

SpecMarket == Init /\ [][NextMarket]_vars

\* The four feeds together.
NextFrame ==
  \/ PriceEvent(MaxEvents, FrameScope)
  \/ BookEvent(MaxEvents, FrameScope)
  \/ TradeEvent(MaxEvents, FrameScope)
  \/ InquiryEvent(MaxEvents)

SpecFrame == Init /\ [][NextFrame]_vars

NextFraming ==
  \/ \E feed \in SocketFeeds : SocketAccept(feed)
  \/ \E feed \in SocketFeeds : SocketRead(feed)
  \/ \E feed \in SocketFeeds : SocketClose(feed)

SpecFraming == Init /\ [][NextFraming]_vars

NextInquiry ==
  \/ InquiryEvent(MaxEvents)
  \/ SendQuoteCall(MaxEvents)
  \/ RejectInquiryCall(MaxEvents)

SpecInquiry == Init /\ [][NextInquiry]_vars

---------------------------------------------------------------------------
\* Reading the state for the properties below.

\* The arguments of the calls `call' on `on' in the log h, in order.
ArgsOf(h, call, on) ==
  LET Is(e) == e.call = call /\ e.on = on
      sel == SelectSeq(h, Is)
  IN [i \in 1..Len(sel) |-> sel[i].arg]

\* The service whose OnMessage a root event of this kind enters.
IntakeService(kind) ==
  CASE kind = "Price" -> "pricing"
    [] kind = "OrderBook" -> "marketData"
    [] kind = "Trade" -> "tradeBooking"
    [] kind = "Inquiry" -> "inquiry"

IntakeKinds == {"Price", "OrderBook", "Trade", "Inquiry"}

\* Best offer minus best bid of the book of the last root event.
LastBookSpread ==
  LET bo == OrderBook_GetBestBidOffer(last.input)
  IN bo.offerOrder.price - bo.bidOrder.price

---------------------------------------------------------------------------
\* C1: for every OrderBook delivered to the AlgoExecution service, an
\* AlgoExecution is emitted to the listeners if and only if best offer minus
\* best bid is at most 1/128; when the spread is wider, no ExecutionOrder is
\* produced, no Trade is derived and no Position changes for that book.
\* The code builds and emits the order on both paths, so this fails.
C1_GateEmitsIffTight ==
  last.kind = "OrderBook" =>
    /\ (Calls(trace, "ProcessAdd", "ExecutionServiceListener") = 1)
         <=> (LastBookSpread <= TightSpread)
    /\ LastBookSpread > TightSpread =>
         /\ Calls(trace, "ProcessAdd", "TradeBookingListener") = 0
         /\ Calls(trace, "ProcessAdd", "HistoricalExecutionListener") = 0
         /\ Calls(trace, "ProcessAdd", "PositionServiceListener") = 0
         /\ Calls(trace, "ProcessAdd", "RiskServiceListener") = 0

\* C2: an Inquiry delivered to OnMessage in state RECEIVED is moved to QUOTED
\* by the adapter, re-submitted, and is DONE when the outer OnMessage returns,
\* and exactly one line is appended to allinquiries.txt for it.  The code
\* notifies the listeners three times (twice in the nested call, once more
\* in the outer one), so three lines are appended.
C2_ReceivedDoneOneLine ==
  (last.kind = "Inquiry" /\ last.input.state = "RECEIVED") =>
    LET entered == ArgsOf(trace, "OnMessage", "InquiryService")
        returned == ArgsOf(trace, "return", "InquiryService")
    IN /\ Len(entered) = 2
       /\ entered[1].state = "RECEIVED"
       /\ entered[2].state = "QUOTED"
       /\ Len(returned) = 2
       /\ returned[2].state = "DONE"
       /\ trace[Len(trace)] = Ev("return", "InquiryService", returned[2])
       /\ Calls(trace, "append", "allinquiries.txt") = 1

\* C3: one call of OnMessage on an intake service (Pricing, MarketData,
\* TradeBooking, Inquiry) makes exactly one ProcessAdd call on each
\* registered listener before it returns.  InquiryService::OnMessage makes
\* two for a QUOTED inquiry and three for a RECEIVED one.
C3_OneProcessAddPerListener ==
  (last.kind \in IntakeKinds /\ last.returned) =>
    \A l \in {Listeners[IntakeService(last.kind)][i] :
                i \in DOMAIN Listeners[IntakeService(last.kind)]} :
      Calls(trace, "ProcessAdd", l) = 1

---------------------------------------------------------------------------
\* Positions and risk against the trades and positions delivered so far.

Books == {"TRSY1", "TRSY2", "TRSY3"}

SignedQuantity(trade) ==
  IF trade.side = "BUY" THEN trade.quantity ELSE -trade.quantity

RECURSIVE SumSigned(_)
SumSigned(trades) ==
  IF trades = <<>> THEN 0
  ELSE SignedQuantity(Head(trades)) + SumSigned(Tail(trades))

RECURSIVE SumAggregate(_)
SumAggregate(positions) ==
  IF positions = <<>> THEN 0
  ELSE Position_GetAggregatePosition(Head(positions))
         + SumAggregate(Tail(positions))

\* The trades delivered to the position service for product p, in order.
TradesOf(p) ==
  LET OfP(t) == t.product = p
  IN SelectSeq(ArgsOf(history, "ProcessAdd", "PositionServiceListener"), OfP)

\* The positions delivered to the risk service for product p, in order.
PositionsOf(p) ==
  LET OfP(x) == x.product = p
  IN SelectSeq(ArgsOf(history, "ProcessAdd", "RiskServiceListener"), OfP)

\* C4: after any sequence of Trades on product p the aggregate position of
\* p is the sum of +quantity of the BUYs and -quantity of the SELLs, and each
\* book slot is the signed sum of the trades booked to that book.
C4_PositionIsSignedSum ==
  \A p \in Products :
    LET trades == TradesOf(p)
    IN IF trades = <<>> THEN ~Has(positionMap, p)
       ELSE /\ Has(positionMap, p)
            /\ Position_GetAggregatePosition(positionMap[p])
                 = SumSigned(trades)
            /\ \A b \in Books :
                 LET InB(t) == t.book = b
                     booked == SelectSeq(trades, InB)
                 IN IF booked = <<>>
                      THEN ~Has(positionMap[p].bookPositionMap, b)
                      ELSE /\ Has(positionMap[p].bookPositionMap, b)
                           /\ positionMap[p].bookPositionMap[b]
                                = SumSigned(booked)

\* Two BUYs of 1,000,000 and 3,000,000 in TRSY1 and nothing else on the
\* product: the book slot and the aggregate are 4,000,000.
C4_Witness ==
  /\ Len(TradesOf("912828M80")) = 2
  /\ TradesOf("912828M80")[1].quantity = 1000000
  /\ TradesOf("912828M80")[2].quantity = 3000000
  /\ \A i \in 1..2 : /\ TradesOf("912828M80")[i].side = "BUY"
                     /\ TradesOf("912828M80")[i].book = "TRSY1"
  /\ positionMap["912828M80"].bookPositionMap["TRSY1"] = 4000000
  /\ Position_GetAggregatePosition(positionMap["912828M80"]) = 4000000

\* C5: after any sequence of Position notifications for product p, the
\* quantity of the PV01 the risk service stores for p is the sum of the
\* aggregate positions those notifications carried.
C5_RiskQuantityIsSum ==
  \A p \in Products :
    LET positions == PositionsOf(p)
    IN IF positions = <<>> THEN ~Has(pv01Map, p)
       ELSE /\ Has(pv01Map, p)
            /\ pv01Map[p].quantity = SumAggregate(positions)

\* Positions of 1,000,000 and then 4,000,000 were notified: 5,000,000.
C5_Witness ==
  /\ Len(PositionsOf("912828M80")) = 2
  /\ Position_GetAggregatePosition(PositionsOf("912828M80")[1]) = 1000000
  /\ Position_GetAggregatePosition(PositionsOf("912828M80")[2]) = 4000000
  /\ pv01Map["912828M80"].quantity = 5000000

---------------------------------------------------------------------------
\* C6: once OnMessage, SendQuote or RejectInquiry has returned, no Inquiry
\* in the store of the inquiry service has state DONE.
C6_NoDoneStored ==
  \A id \in DOMAIN inquiryMap : inquiryMap[id].state /= "DONE"

\* An inquiry came in QUOTED, was notified as DONE and is not in the store,
\* while another inquiry stays stored.
C6_Witness ==
  /\ last.kind = "Inquiry"
  /\ last.input.state = "QUOTED"
  /\ ArgsOf(trace, "ProcessAdd", "HistoricalInquiryListener")
       = <<[last.input EXCEPT !.state = "DONE"],
           [last.input EXCEPT !.state = "DONE"]>>
  /\ ~Has(inquiryMap, last.input.inquiryId)
  /\ inquiryMap /= EmptyMap

---------------------------------------------------------------------------
\* The AlgoStreams delivered to the streaming service so far, in order.
AlgoStreams == ArgsOf(history, "ProcessAdd", "StreamingServiceListener")

\* C7: for every Price P of product p delivered to the pricing service, when
\* OnMessage is over one AlgoStream for p is stored in the algo streaming
\* service, with bid = P.mid - P.spread/2, offer = P.mid + P.spread/2, and
\* hidden quantity twice the visible quantity on both sides.
C7_AlgoStreamFromPrice ==
  last.kind = "Price" =>
    LET P == last.input
    IN /\ Has(algoStreamMap, P.product)
       /\ Calls(trace, "ProcessAdd", "AlgoStreamingServiceListener") = 1
       /\ ArgsOf(trace, "ProcessAdd", "StreamingServiceListener")
            = <<algoStreamMap[P.product]>>
       /\ LET ps == algoStreamMap[P.product].priceStream
          IN /\ ps.product = P.product
             /\ 2 * ps.bid.price = 2 * P.mid - P.spread
             /\ 2 * ps.offer.price = 2 * P.mid + P.spread
             /\ ps.bid.side = "BID" /\ ps.offer.side = "OFFER"
             /\ ps.bid.hidden = 2 * ps.bid.visible
             /\ ps.offer.hidden = 2 * ps.offer.visible

\* The Price 100-002 with spread 1/64 gave 99-316+ / 100-006 in size
\* 2,000,000 visible and 4,000,000 hidden.
C7_Witness ==
  /\ last.kind = "Price"
  /\ last.input = [product |-> "912828M80", mid |-> 51202, spread |-> 8]
  /\ Has(algoStreamMap, "912828M80")
  /\ algoStreamMap["912828M80"].priceStream.bid
       = [price |-> 51198, visible |-> 2000000, hidden |-> 4000000,
          side |-> "BID"]
  /\ algoStreamMap["912828M80"].priceStream.offer
       = [price |-> 51206, visible |-> 2000000, hidden |-> 4000000,
          side |-> "OFFER"]

\* C8: over consecutive Prices the visible quantity of the AlgoStreams
\* alternates strictly between 1,000,000 and 2,000,000: it follows the parity
\* of the service's counter (even 1,000,000, odd 2,000,000), which moves by
\* exactly one per Price.
C8_VisibleAlternates ==
  LET streams == AlgoStreams
      n == Len(streams)
      count0 == asCount - n
      Visible(i) == streams[i].priceStream.bid.visible
  IN /\ n = nEvents
     /\ count0 \in UninitLong
     /\ \A i \in 1..n :
          /\ Visible(i) = IF CMod(count0 + i - 1, 2) = 0
                            THEN VisibleEven ELSE VisibleOdd
          /\ streams[i].priceStream.offer.visible = Visible(i)
     /\ \A i \in 1..(n - 1) :
          /\ Visible(i) /= Visible(i + 1)
          /\ {Visible(i), Visible(i + 1)} = {VisibleEven, VisibleOdd}

\* Three consecutive Prices on one product: 1,000,000, 2,000,000, 1,000,000.
C8_Witness ==
  /\ Len(AlgoStreams) = 3
  /\ \A i \in 1..3 : AlgoStreams[i].priceStream.product = "9128283H1"
  /\ [i \in 1..3 |-> AlgoStreams[i].priceStream.bid.visible]
       = <<1000000, 2000000, 1000000>>
  /\ asCount = 3

---------------------------------------------------------------------------
\* The file each historical listener writes to.
HistoricalFile ==
  [HistoricalPositionListener |-> "positions.txt",
   HistoricalRiskListener |-> "risk.txt",
   HistoricalExecutionListener |-> "executions.txt",
   HistoricalStreamingListener |-> "streaming.txt",
   HistoricalInquiryListener |-> "allinquiries.txt"]

\* C9: each notification of a Position, PV01, ExecutionOrder, PriceStream or
\* Inquiry to its historical listener appends exactly one line to the file of
\* that record type (positions.txt, risk.txt, executions.txt, streaming.txt,
\* allinquiries.txt) and no line to any other file.
C9_OneLinePerNotification ==
  /\ \A l \in DOMAIN HistoricalFile :
       [i \in 1..Len(files[HistoricalFile[l]]) |->
          files[HistoricalFile[l]][i].data]
         = ArgsOf(history, "ProcessAdd", l)
  /\ \A i \in 1..Len(history) :
       (history[i].call = "ProcessAdd" /\ history[i].on \in DOMAIN HistoricalFile)
         => /\ i < Len(history)
            /\ history[i + 1]
                 = Ev("append", HistoricalFile[history[i].on], history[i].arg)
            /\ i + 2 <= Len(history) => history[i + 2].call /= "append"

\* An order book went through execution, booking, position and risk, and a
\* Price through streaming and to the GUI: one line each in four historical
\* files, none in the fifth.
C9_Witness ==
  /\ Len(files["executions.txt"]) = 1
  /\ Len(files["positions.txt"]) = 1
  /\ Len(files["risk.txt"]) = 1
  /\ Len(files["streaming.txt"]) = 1
  /\ files["allinquiries.txt"] = <<>>
  /\ Len(files["gui.txt"]) = 1

---------------------------------------------------------------------------
\* C10: between two consecutive lines emitted to the GUI sink more than
\* 300 ms pass, measured against one last-emit time shared by all products;
\* a Price that arrives inside the window is discarded and never emitted
\* later (a line is only ever written for the Price being delivered, at its
\* arrival).
C10_GuiThrottle ==
  LET gui == files["gui.txt"]
  IN /\ \A i \in 1..(Len(gui) - 1) :
          gui[i + 1].time - gui[i].time > Throttle * UsPerMs
     /\ gui /= <<>> => guiStartTime = gui[Len(gui)].time
     /\ \A i \in 1..Len(history) :
          (history[i].call = "append" /\ history[i].on = "gui.txt")
            => /\ i > 1
               /\ history[i - 1]
                    = Ev("ProcessAdd", "GUIServiceListener", history[i].arg)
     /\ Calls(trace, "append", "gui.txt") <= 1
     /\ Calls(trace, "append", "gui.txt") = 1 =>
          /\ last.kind = "Price"
          /\ gui[Len(gui)] = [time |-> now, data |-> last.input]

\* Two lines of different products, and between them a Price that came
\* 300.9 ms after the first line and was dropped.
C10_Witness ==
  LET gui == files["gui.txt"]
  IN /\ Len(gui) = 2
     /\ gui[1].data.product /= gui[2].data.product
     /\ Calls(history, "ProcessAdd", "GUIServiceListener") = 3
     /\ gui[1].time = 301000
     /\ gui[2].time = 902900

---------------------------------------------------------------------------
\* The stored order books.

NoTwoAtOnePrice(stack) ==
  \A i, j \in DOMAIN stack : i /= j => stack[i].price /= stack[j].price

LevelsOf(stack) == {stack[i] : i \in DOMAIN stack}

\* What AggregateDepth can make of the stored book of product p, one
\* book for each order the two unordered_maps can be iterated in.
AggregatedAgain(p) ==
  {MarketDataService_AggregateDepth(
     [orderBookMap |-> orderBookMap, iter |-> [bid |-> bid, offer |-> offer]],
     p).orderBookMap[p] :
     bid \in UnorderedIterations(PricesOf(orderBookMap[p].bidStack)),
     offer \in UnorderedIterations(PricesOf(orderBookMap[p].offerStack))}

\* The line the last market data event read.
LastSnapshot == ArgsOf(trace, "handle_read", "MarketDataConnector")[1]

\* C11 as stated: after every OrderBook intake the stored book of the
\* product has no two bid Orders and no two offer Orders at one price, and
\* aggregating the stored book again leaves it unchanged.  The stacks are
\* rebuilt in the iteration order of an unordered_map, so the second
\* aggregation may return the same levels in another order.
C11_AggregatedAgainUnchanged ==
  \A p \in DOMAIN orderBookMap :
    /\ NoTwoAtOnePrice(orderBookMap[p].bidStack)
    /\ NoTwoAtOnePrice(orderBookMap[p].offerStack)
    /\ \A again \in AggregatedAgain(p) : again = orderBookMap[p]

\* C11, amended: after every OrderBook intake the stored book of the product
\* has no two bid Orders and no two offer Orders at one price, and
\* aggregating the stored book again leaves the levels of each side (price,
\* quantity, side) and their number unchanged; their order in the stack may
\* change.
C11_AggregatedAgainSameLevels ==
  \A p \in DOMAIN orderBookMap :
    /\ NoTwoAtOnePrice(orderBookMap[p].bidStack)
    /\ NoTwoAtOnePrice(orderBookMap[p].offerStack)
    /\ \A again \in AggregatedAgain(p) :
         /\ again.product = p
         /\ Len(again.bidStack) = Len(orderBookMap[p].bidStack)
         /\ Len(again.offerStack) = Len(orderBookMap[p].offerStack)
         /\ LevelsOf(again.bidStack) = LevelsOf(orderBookMap[p].bidStack)
         /\ LevelsOf(again.offerStack) = LevelsOf(orderBookMap[p].offerStack)

\* A line with repeated prices on both sides was taken in: the stored book
\* has two levels per side, and a second aggregation can reorder them.
C11_Witness ==
  /\ last.kind = "OrderBook"
  /\ ~NoTwoAtOnePrice(LastSnapshot.bidStack)
  /\ ~NoTwoAtOnePrice(LastSnapshot.offerStack)
  /\ Len(orderBookMap[last.input.product].bidStack) = 2
  /\ Len(orderBookMap[last.input.product].offerStack) = 2
  /\ \E again \in AggregatedAgain(last.input.product) :
       again /= orderBookMap[last.input.product]


\* stack holds exactly the levels of raw aggregated by price: one level for
\* each price of raw, with the quantities raw has at that price summed.
AggregateOf(stack, raw) ==
  /\ NoTwoAtOnePrice(stack)
  /\ PricesOf(stack) = PricesOf(raw)
  /\ \A i \in DOMAIN stack :
       stack[i].quantity = QuantityAt(raw, stack[i].price)

\* C12: after the intake of a 5-level snapshot for product p the book stored
\* for p consists of exactly that snapshot's levels aggregated by price:
\* each side holds at most 5 levels, and the quantity at each price is the
\* sum of that snapshot's quantities at that price on that side.
C12_StoredIsSnapshotAggregated ==
  last.kind = "OrderBook" =>
    LET snapshot == LastSnapshot
        stored == orderBookMap[snapshot.product]
    IN /\ Len(stored.bidStack) <= BookDepth
       /\ Len(stored.offerStack) <= BookDepth
       /\ AggregateOf(stored.bidStack, snapshot.bidStack)
       /\ AggregateOf(stored.offerStack, snapshot.offerStack)


\* The best levels of a book, by price alone.
BestBid(orderBook) ==
  CHOOSE o \in LevelsOf(orderBook.bidStack) :
    \A x \in LevelsOf(orderBook.bidStack) : x.price <= o.price

BestOffer(orderBook) ==
  CHOOSE o \in LevelsOf(orderBook.offerStack) :
    \A x \in LevelsOf(orderBook.offerStack) : o.price <= x.price

\* C13: an OrderBook whose spread is exactly 1/128 produces, within the call
\* of MarketDataService::OnMessage that delivers it, exactly one
\* ExecutionOrder, one Trade, one Position update and one PV01 update, each
\* for the product of the book.
C13_TightBookOneOfEach ==
  (last.kind = "OrderBook" /\ LastBookSpread = TightSpread) =>
    LET t == trace
        p == last.input.product
        executions == ArgsOf(t, "ProcessAdd", "ExecutionServiceListener")
        orders == ArgsOf(t, "ProcessAdd", "TradeBookingListener")
        trades == ArgsOf(t, "ProcessAdd", "PositionServiceListener")
        positions == ArgsOf(t, "ProcessAdd", "RiskServiceListener")
        pv01s == ArgsOf(t, "ProcessAdd", "HistoricalRiskListener")
    IN /\ Len(executions) = 1
       /\ Len(orders) = 1
       /\ orders[1] = executions[1].executionOrder
       /\ orders[1].product = p
       /\ Len(trades) = 1
       /\ trades[1].product = p
       /\ Len(positions) = 1
       /\ positions[1].product = p
       /\ Len(pv01s) = 1
       /\ pv01s[1].product = p

\* A second book of spread 1/128 for one product went through the chain
\* and the market data handler returned.
C13_Witness ==
  /\ last.kind = "OrderBook"
  /\ last.returned
  /\ LastBookSpread = TightSpread
  /\ nEvents = 2
  /\ aeCount = 2
  /\ Len(ArgsOf(trace, "ProcessAdd", "HistoricalRiskListener")) = 1
  /\ Len(execSink) = 2

\* C15: when a book passes the spread test, the parity of the service's
\* counter selects the side: on an even count the order has side BID (a
\* BUY), the best offer's price and the best bid's quantity; on an odd count
\* side OFFER (a SELL), the best bid's price and the best offer's quantity.
\* The order is a MARKET order, not a child order, and goes to BROKERTEC.
C15_ParitySelectsSide ==
  (last.kind = "OrderBook" /\ LastBookSpread <= TightSpread) =>
    LET executions == ArgsOf(trace, "ProcessAdd", "ExecutionServiceListener")
        order == executions[1].executionOrder
        count == aeCount - 1
        bid == BestBid(last.input)
        offer == BestOffer(last.input)
    IN /\ Len(executions) = 1
       /\ order.orderType = "MARKET"
       /\ ~order.isChildOrder
       /\ executions[1].market = "BROKERTEC"
       /\ count % 2 = 0 =>
            /\ order.side = "BID"
            /\ order.price = offer.price
            /\ order.visibleQuantity = bid.quantity
       /\ count % 2 = 1 =>
            /\ order.side = "OFFER"
            /\ order.price = bid.price
            /\ order.visibleQuantity = offer.quantity

\* Two books passed the spread test: the first gave a BID order, this one
\* an OFFER order, and the two best quantities differ.
C15_Witness ==
  /\ last.kind = "OrderBook"
  /\ LastBookSpread <= TightSpread
  /\ aeCount = 2
  /\ Len(execSink) = 2
  /\ execSink[1].order.side = "BID"
  /\ execSink[2].order.side = "OFFER"
  /\ BestBid(last.input).quantity /= BestOffer(last.input).quantity


\* C16: the Trade synthesised from an ExecutionOrder has quantity = visible
\* + hidden quantity, side BUY when the order's side is BID and SELL when it
\* is OFFER, tradeId = orderId, and the order's price and product.
C16_TradeOfExecutionOrder ==
  LET orders == ArgsOf(trace, "ProcessAdd", "TradeBookingListener")
      trades == ArgsOf(trace, "ProcessAdd", "PositionServiceListener")
  IN last.kind \in {"OrderBook", "AlgoExecution"} =>
       /\ Len(trades) = Len(orders)
       /\ \A i \in DOMAIN orders :
            /\ trades[i].quantity =
                 orders[i].visibleQuantity + orders[i].hiddenQuantity
            /\ orders[i].side = "BID" => trades[i].side = "BUY"
            /\ orders[i].side = "OFFER" => trades[i].side = "SELL"
            /\ trades[i].tradeId = orders[i].orderId
            /\ trades[i].price = orders[i].price
            /\ trades[i].product = orders[i].product

\* An OFFER order with a hidden quantity became a SELL Trade of the sum.
C16_Witness ==
  LET orders == ArgsOf(trace, "ProcessAdd", "TradeBookingListener")
      trades == ArgsOf(trace, "ProcessAdd", "PositionServiceListener")
  IN /\ last.kind = "AlgoExecution"
     /\ Len(orders) = 1
     /\ orders[1].side = "OFFER"
     /\ orders[1].hiddenQuantity = 2000000
     /\ Len(trades) = 1
     /\ trades[1].side = "SELL"
     /\ trades[1].quantity = 3000000


\* The positions of the trace at which `call' is made on `on'.
IndexesOf(t, call, on) ==
  {i \in DOMAIN t : t[i].call = call /\ t[i].on = on}

\* C14: within one PricingService::OnMessage the listeners are called in
\* the order of their registration, and the whole reaction of one listener
\* ends before the next is called: the algo streaming listener, with the
\* streaming service, its line in streaming.txt and the publication to the
\* stream sink, is done before the GUI listener sees the same Price.
C14_AlgoStreamBeforeGui ==
  last.kind = "Price" =>
    LET t == trace
        algo == IndexesOf(t, "ProcessAdd", "AlgoStreamingServiceListener")
        gui == IndexesOf(t, "ProcessAdd", "GUIServiceListener")
        streaming == IndexesOf(t, "ProcessAdd", "StreamingServiceListener")
        historical == IndexesOf(t, "ProcessAdd", "HistoricalStreamingListener")
        line == IndexesOf(t, "append", "streaming.txt")
        sink == IndexesOf(t, "Publish", "StreamOutputConnector")
        reaction == streaming \cup historical \cup line \cup sink
    IN /\ algo = {1}
       /\ Cardinality(gui) <= 1
       /\ \A g \in gui :
            /\ t[g].arg = last.input
            /\ \A i \in algo \cup reaction : i < g
            /\ \A part \in {streaming, historical, line, sink} :
                 Cardinality(part) = 1
            /\ \A i \in DOMAIN t : i > g => t[i].on = "gui.txt"

\* A Price went through both listeners: its stream reached the sink and its
\* line reached gui.txt.
C14_Witness ==
  /\ last.kind = "Price"
  /\ last.returned
  /\ Calls(trace, "ProcessAdd", "GUIServiceListener") = 1
  /\ Calls(trace, "Publish", "StreamOutputConnector") = 1
  /\ Calls(trace, "append", "streaming.txt") = 1
  /\ Calls(trace, "append", "gui.txt") = 1
  /\ Len(trace) = 9


\* The Trades the trade booking listener made of ExecutionOrders, in the
\* order it made them: BookTrade hands each to the position listener right
\* after the listener was called.
DerivedTrades ==
  LET h == history
      Made(i) == /\ i > 1
                 /\ h[i].call = "ProcessAdd"
                 /\ h[i].on = "PositionServiceListener"
                 /\ h[i - 1].call = "ProcessAdd"
                 /\ h[i - 1].on = "TradeBookingListener"
      RECURSIVE Walk(_)
      Walk(i) == IF i > Len(h) THEN <<>>
                 ELSE (IF Made(i) THEN <<h[i].arg>> ELSE <<>>) \o Walk(i + 1)
  IN Walk(1)

\* C17: the Trades derived from executions rotate over the books by the
\* listener's counter, which starts at 0 and is incremented before use: the
\* k-th derived Trade is booked to TRSY2, TRSY3, TRSY1, TRSY2, ... (by k mod
\* 3), and the Trades of the trade feed do not advance the counter.
C17_BooksRotate ==
  LET derived == DerivedTrades
  IN /\ tbCount = Len(derived)
     /\ \A k \in DOMAIN derived :
          derived[k].book = CASE k % 3 = 1 -> "TRSY2"
                              [] k % 3 = 2 -> "TRSY3"
                              [] k % 3 = 0 -> "TRSY1"
     /\ last.kind = "Trade" =>
          /\ Calls(trace, "ProcessAdd", "TradeBookingListener") = 0
          /\ Calls(trace, "ProcessAdd", "PositionServiceListener") = 1

\* Three executions were booked, to TRSY2, TRSY3 and TRSY1.
C17_Witness ==
  LET derived == DerivedTrades
  IN /\ Len(derived) = 3
     /\ derived[1].book = "TRSY2"
     /\ derived[2].book = "TRSY3"
     /\ derived[3].book = "TRSY1"
     /\ tbCount = 3


\* C18: the first Price after the construction of the algo streaming
\* service yields a visible quantity of 1,000,000 and a hidden quantity of
\* 2,000,000 (the counter starts at 0), and the second Price on the same
\* product a visible quantity of 2,000,000.
C18_FirstVisibleIsMillion ==
  LET streams == AlgoStreams
      Bid(i) == streams[i].priceStream.bid
  IN /\ Len(streams) >= 1 =>
          /\ Bid(1).visible = VisibleEven
          /\ Bid(1).hidden = 2 * VisibleEven
     /\ (/\ Len(streams) >= 2
         /\ streams[2].priceStream.product = streams[1].priceStream.product)
          => Bid(2).visible = VisibleOdd


\* The lines of gui.txt written while the Prices i .. j were taken.
GuiLinesOf(i, j) ==
  LET IsIn(l) == \E k \in i..j : l.time = arrivals[k]
  IN SelectSeq(files["gui.txt"], IsIn)

\* C19: when 10 Prices for one product arrive within 100 ms, gui.txt
\* receives exactly one line, for the first of the 10 Prices, and the other
\* 9 Prices are dropped.  The runs looked at are those in which the stream
\* sink never failed, so that every Price reached the GUI listener.
C19_BurstGivesFirstLine ==
  LET prices == ArgsOf(history, "ProcessAdd", "AlgoStreamingServiceListener")
  IN \A i \in DOMAIN arrivals :
       (/\ alive["price"]
        /\ i + 9 <= Len(arrivals)
        /\ i + 9 <= Len(prices)
        /\ \A k \in i..(i + 9) :
             /\ prices[k].product = prices[i].product
             /\ arrivals[i] <= arrivals[k]
             /\ arrivals[k] - arrivals[i] <= 100 * UsPerMs
             /\ \A m \in 1..Len(arrivals) :
                  arrivals[m] = arrivals[k] => m = k)
         => GuiLinesOf(i, i + 9)
              = <<[time |-> arrivals[i], data |-> prices[i]]>>


\* C20: a record of a feed whose CUSIP is not in the registry of products
\* is logged and skipped, and every later valid record on the same feed is
\* still delivered: after such a record nothing but the log was written,
\* and the adapter of the feed still runs.
C20_UnknownCusipSkipped ==
  (last.kind = "Price" /\ last.input.product \in UnknownCusips) =>
    /\ trace = <<Ev("log", "ERROR", <<"Unknown CUSIP", last.input.product>>)>>
    /\ ~Has(priceMap, last.input.product)
    /\ alive["price"]


\* C21: a malformed market data line (one with fewer than five levels, or
\* with a size that is not a number) is skipped: the OrderBook stored for
\* its product is exactly what it was before the line, and no listener is
\* notified for it.
C21_MalformedLineSkipped ==
  [][last'.kind = "BadLine" =>
       /\ orderBookMap' = orderBookMap
       /\ \A i \in DOMAIN trace' : trace'[i].call /= "ProcessAdd"]_vars


\* C22: a failure of the stream sink or of the execution sink for one
\* record does not stop processing: the record is dropped and every later
\* record of the feed is still processed through the graph.  Here: after a
\* Price whose PriceStream the stream sink failed to take, the GUI listener
\* was still given the Price and the price adapter still runs; after an
\* OrderBook whose order the execution sink failed to take, the market data
\* adapter still runs.
C22_SinkFailureContinues ==
  LET t == trace
      streamFailed ==
        /\ last.kind = "Price"
        /\ Calls(t, "ProcessAdd", "StreamingServiceListener") = 1
        /\ Calls(t, "Publish", "StreamOutputConnector") = 0
      execFailed ==
        /\ last.kind = "OrderBook"
        /\ Calls(t, "ProcessAdd", "ExecutionServiceListener") = 1
        /\ Calls(t, "Publish", "ExecutionOutputConnector") = 0
  IN /\ streamFailed =>
          /\ alive["price"]
          /\ Calls(t, "ProcessAdd", "GUIServiceListener") = 1
     /\ execFailed => alive["market"]


\* C24: every ExecutionOrder produced during a run has an orderId different
\* from that of every other ExecutionOrder, so that storing by orderId in
\* ExecutionService never overwrites an earlier order: the number of stored
\* orders equals the number of executions.
C24_OrderIdsUnique ==
  LET orders == ArgsOf(history, "ProcessAdd", "TradeBookingListener")
  IN /\ \A i, j \in DOMAIN orders :
          i /= j => orders[i].orderId /= orders[j].orderId
     /\ Cardinality(DOMAIN executionOrderMap) = Len(orders)


\* The position at which the call of OnMessage entered at position i of the
\* trace returns, for a call that makes no nested call of OnMessage.
ReturnOf(t, i) ==
  CHOOSE j \in (i + 1)..Len(t) :
    /\ t[j].call = "return"
    /\ \A k \in (i + 1)..(j - 1) : t[k].call /= "return"

\* C25: an Inquiry delivered to OnMessage in state QUOTED is marked DONE and
\* causes exactly two ProcessAdd notifications per listener (one from the
\* QUOTED branch, one from the unconditional tail), both carrying state
\* DONE.
C25_QuotedNotifiesTwice ==
  LET t == trace
  IN \A i \in DOMAIN t :
       (/\ t[i].call = "OnMessage"
        /\ t[i].on = "InquiryService"
        /\ t[i].arg.state = "QUOTED") =>
         LET j == ReturnOf(t, i)
             done == [t[i].arg EXCEPT !.state = "DONE"]
         IN /\ t[j].arg = done
            /\ \A l \in {Listeners.inquiry[n] : n \in DOMAIN Listeners.inquiry} :
                 /\ Cardinality({k \in i..j : t[k].call = "ProcessAdd"
                                               /\ t[k].on = l}) = 2
                 /\ \A k \in i..j :
                      (t[k].call = "ProcessAdd" /\ t[k].on = l)
                        => t[k].arg = done

\* An inquiry came from the feed in state QUOTED: the listener was called
\* twice with it in state DONE.
C25_Witness ==
  /\ last.kind = "Inquiry"
  /\ last.input.state = "QUOTED"
  /\ trace[1] = Ev("OnMessage", "InquiryService", last.input)
  /\ trace[2] = Ev("ProcessAdd", "HistoricalInquiryListener",
                   [last.input EXCEPT !.state = "DONE"])
  /\ Calls(trace, "ProcessAdd", "HistoricalInquiryListener") = 2
  /\ Calls(trace, "OnMessage", "InquiryService") = 1


\* C26: the PV01 handed to the listeners of the risk service for a Position
\* (and so the quantity written to risk.txt) is the record the risk service
\* stores for that product, with the accumulated quantity.
C26_NotifiedPV01IsStored ==
  LET pv01s == ArgsOf(trace, "ProcessAdd", "HistoricalRiskListener")
      lines == ArgsOf(trace, "append", "risk.txt")
  IN /\ lines = pv01s
     /\ \A i \in DOMAIN pv01s :
          /\ Has(pv01Map, pv01s[i].product)
          /\ pv01s[i] = pv01Map[pv01s[i].product]


\* C27: BookTrade hands the Trade to every listener of the trade booking
\* service exactly once and leaves tradeMap as it was, so a Trade derived
\* from an execution cannot be found by its tradeId; a Trade of the feed,
\* which comes through OnMessage, is stored under its tradeId (replacing the
\* one stored there, if any) and handed to every listener exactly once.
C27_BookTradeDoesNotStore ==
  [][LET orders == ArgsOf(trace', "ProcessAdd", "TradeBookingListener")
         trades == ArgsOf(trace', "ProcessAdd", "PositionServiceListener")
     IN /\ last'.kind = "OrderBook" =>
             /\ tradeMap' = tradeMap
             /\ Len(trades) = Len(orders)
             /\ \A i \in DOMAIN orders :
                  /\ trades[i].tradeId = orders[i].orderId
                  /\ ~Has(tradeMap', trades[i].tradeId)
        /\ last'.kind = "Trade" =>
             /\ tradeMap' = Put(tradeMap, last'.input.tradeId, last'.input)
             /\ trades = <<last'.input>>]_vars

\* A Trade of the feed is stored, and the Trade derived from the execution
\* that follows it was handed to the listener and is not.
C27_Witness ==
  LET trades == ArgsOf(trace, "ProcessAdd", "PositionServiceListener")
  IN /\ last.kind = "OrderBook"
     /\ Len(ArgsOf(trace, "ProcessAdd", "TradeBookingListener")) = 1
     /\ Len(trades) = 1
     /\ ~Has(tradeMap, trades[1].tradeId)
     /\ Cardinality(DOMAIN tradeMap) = 1
     /\ Len(ArgsOf(history, "ProcessAdd", "PositionServiceListener")) = 2


\* Whether, in the trace t, the record handed to the listener `on' is first
\* inserted into `map', then handed once to each of the listeners ls, and
\* only then passed once to the sink by the call `call' of `service'.
StoredNotifiedSent(t, on, map, ls, call, service, Record(_)) ==
  LET adds == IndexesOf(t, "ProcessAdd", on)
      stores == IndexesOf(t, "insert", map)
      sends == IndexesOf(t, call, service)
  IN /\ Cardinality(adds) <= 1
     /\ Cardinality(stores) = Cardinality(adds)
     /\ Cardinality(sends) = Cardinality(adds)
     /\ \A a \in adds, i \in stores, k \in sends :
          /\ a < i
          /\ i < k
          /\ t[i].arg = Record(t[a].arg)
          /\ t[k].arg = Record(t[a].arg)
          /\ \A n \in DOMAIN ls :
               LET notes == IndexesOf(t, "ProcessAdd", ls[n])
               IN /\ Cardinality(notes) = 1
                  /\ \A j \in notes : /\ i < j
                                      /\ j < k
                                      /\ t[j].arg = Record(t[a].arg)

\* C28: for each AlgoStream the streaming service first stores the
\* PriceStream, then notifies all its listeners, and only then calls the
\* stream sink, once each; the execution service does the same with the
\* ExecutionOrder of each AlgoExecution and the execution sink.
C28_StoreNotifyThenSink ==
  LET t == trace
      streams == ArgsOf(t, "insert", "priceStreamMap")
      orders == ArgsOf(t, "insert", "executionOrderMap")
  IN /\ StoredNotifiedSent(t, "StreamingServiceListener", "priceStreamMap",
                           Listeners.streaming, "PublishPrice",
                           "StreamingService", LAMBDA a : a.priceStream)
     /\ StoredNotifiedSent(t, "ExecutionServiceListener",
                           "executionOrderMap", Listeners.execution,
                           "ExecuteOrder", "ExecutionService",
                           LAMBDA a : a.executionOrder)
     /\ \A i \in DOMAIN streams :
          /\ Has(priceStreamMap, streams[i].product)
          /\ priceStreamMap[streams[i].product] = streams[i]
     /\ \A i \in DOMAIN orders :
          /\ Has(executionOrderMap, orders[i].orderId)
          /\ executionOrderMap[orders[i].orderId] = orders[i]
     /\ Calls(t, "Publish", "StreamOutputConnector") <= Len(streams)
     /\ Calls(t, "Publish", "ExecutionOutputConnector") <= Len(orders)

\* A market data line gave an order that was stored, handed to both
\* listeners and delivered to the execution sink, after a Price whose
\* stream was delivered to the stream sink.
C28_Witness ==
  /\ last.kind = "OrderBook"
  /\ last.returned
  /\ Calls(trace, "insert", "executionOrderMap") = 1
  /\ Calls(trace, "ProcessAdd", "TradeBookingListener") = 1
  /\ Calls(trace, "ProcessAdd", "HistoricalExecutionListener") = 1
  /\ Calls(trace, "ExecuteOrder", "ExecutionService") = 1
  /\ Calls(trace, "Publish", "ExecutionOutputConnector") = 1
  /\ Calls(history, "PublishPrice", "StreamingService") = 1
  /\ Len(streamSink) = 1
  /\ Len(execSink) = 1


\* C29: an Inquiry delivered in state REJECTED or CUSTOMER_REJECTED is
\* stored under its inquiry id with its state and its other fields as they
\* came, and each listener is notified exactly once, with that inquiry.
C29_RejectedStoredAsIs ==
  (/\ last.kind = "Inquiry"
   /\ last.input.state \in {"REJECTED", "CUSTOMER_REJECTED"}) =>
    /\ Has(inquiryMap, last.input.inquiryId)
    /\ inquiryMap[last.input.inquiryId] = last.input
    /\ \A n \in DOMAIN Listeners.inquiry :
         ArgsOf(trace, "ProcessAdd", Listeners.inquiry[n]) = <<last.input>>
    /\ Calls(trace, "OnMessage", "InquiryService") = 1

\* A CUSTOMER_REJECTED inquiry came for an id stored in another state.
C29_Witness ==
  /\ last.kind = "Inquiry"
  /\ last.input.state = "CUSTOMER_REJECTED"
  /\ nEvents = 2
  /\ Has(inquiryMap, last.input.inquiryId)
  /\ inquiryMap[last.input.inquiryId].state = "CUSTOMER_REJECTED"
  /\ \E i \in DOMAIN history :
       /\ history[i].call = "OnMessage"
       /\ history[i].arg.inquiryId = last.input.inquiryId
       /\ history[i].arg.state = "REJECTED"


\* C30: SendQuote(id, price) for an id that is stored changes only the price
\* of that inquiry (its state and other fields, and every other inquiry,
\* stay as they were) and notifies each listener exactly once, with the
\* inquiry as updated.
C30_SendQuoteSetsPriceOnly ==
  [][(/\ last'.kind = "SendQuote"
      /\ Has(inquiryMap, last'.input.inquiryId)) =>
       LET inquiryId == last'.input.inquiryId
           quoted == [inquiryMap[inquiryId] EXCEPT
                        !.price = last'.input.price]
       IN /\ inquiryMap' = [inquiryMap EXCEPT ![inquiryId] = quoted]
          /\ \A n \in DOMAIN Listeners.inquiry :
               ArgsOf(trace', "ProcessAdd", Listeners.inquiry[n]) =
                 <<quoted>>]_vars

\* A stored REJECTED inquiry of the feed was quoted at another price while
\* another inquiry was stored as well.
C30_Witness ==
  /\ last.kind = "SendQuote"
  /\ nEvents = 3
  /\ DOMAIN inquiryMap = InquiryIds
  /\ inquiryMap[last.input.inquiryId].state = "REJECTED"
  /\ inquiryMap[last.input.inquiryId].product = "9128283H1"
  /\ inquiryMap[last.input.inquiryId].price = 51328
  /\ ArgsOf(trace, "ProcessAdd", "HistoricalInquiryListener") =
       <<inquiryMap[last.input.inquiryId]>>
  /\ \E i \in DOMAIN history :
       /\ history[i].call = "OnMessage"
       /\ history[i].arg.inquiryId = last.input.inquiryId
       /\ history[i].arg.state = "REJECTED"
       /\ history[i].arg.price = 51200


\* The position service is never inside AddTrade on two threads.
C23_OneThreadInAddTrade ==
  ~(\A t \in Threads : running[t] /= Idle)

\* Between records, the aggregate position of each product is the signed
\* sum of the Trades handed to the position service for it.
C23_AggregateIsSignedSum ==
  (\A t \in Threads : running[t] = Idle) =>
    \A p \in Products :
      LET trades == TradesOf(p)
      IN trades /= <<>> =>
           /\ Has(positionMap, p)
           /\ Position_GetAggregatePosition(positionMap[p])
                = SumSigned(trades)

\* C23: with the trade feed and the market data feed each on its own thread
\* and no locks, the position store is never updated by two threads at
\* once, and for every interleaving the aggregate position of a product is
\* the signed sum of all the Trades, of the feed and derived, for it: no
\* update is lost.
C23_NoUpdateLost ==
  /\ C23_OneThreadInAddTrade
  /\ C23_AggregateIsSignedSum


\* The sum, over the Trades of the sequence, of the aggregate position that
\* stands after each of them.
RECURSIVE SumOfRunningAggregates(_)
SumOfRunningAggregates(trades) ==
  IF trades = <<>> THEN 0
  ELSE SumOfRunningAggregates(SubSeq(trades, 1, Len(trades) - 1))
         + SumSigned(trades)

SnapshotsOf(h, p) ==
  LET OfP(x) == x.product = p
  IN SelectSeq(ArgsOf(h, "handle_read", "MarketDataConnector"), OfP)

\* The levels of one side of the lines, one line after the other.
RECURSIVE AllLevels(_, _)
AllLevels(snapshots, side) ==
  IF snapshots = <<>> THEN <<>>
  ELSE (IF side = "BID" THEN Head(snapshots).bidStack
        ELSE Head(snapshots).offerStack) \o AllLevels(Tail(snapshots), side)

\* C33: successive snapshots for a product are merged into the stored book,
\* not put in its place: after each snapshot the stored book has one level
\* for every price seen so far on that side, with the quantities of all the
\* snapshots summed per price; so the best bid price never goes down and the
\* best offer price never goes up.
C33_SnapshotsAreMerged ==
  [][last'.kind = "OrderBook" =>
       LET p == last'.input.product
           snapshots == SnapshotsOf(history', p)
           stored == orderBookMap'[p]
       IN /\ AggregateOf(stored.bidStack, AllLevels(snapshots, "BID"))
          /\ AggregateOf(stored.offerStack, AllLevels(snapshots, "OFFER"))
          /\ Has(orderBookMap, p) =>
               /\ PricesOf(orderBookMap[p].bidStack)
                    \subseteq PricesOf(stored.bidStack)
               /\ PricesOf(orderBookMap[p].offerStack)
                    \subseteq PricesOf(stored.offerStack)
               /\ BestBid(stored).price >= BestBid(orderBookMap[p]).price
               /\ BestOffer(stored).price
                    <= BestOffer(orderBookMap[p]).price]_vars

\* A line with one price per side came after a line with two: the book
\* keeps the four levels, the quantities of both lines summed, and its best
\* offer is still the lower one of the first line.
C33_Witness ==
  /\ last.kind = "OrderBook"
  /\ Len(SnapshotsOf(history, last.input.product)) = 2
  /\ PricesOf(LastSnapshot.offerStack) = {51204}
  /\ PricesOf(orderBookMap[last.input.product].offerStack) = {51200, 51204}
  /\ BestOffer(orderBookMap[last.input.product]).price = 51200
  /\ QuantityAt(orderBookMap[last.input.product].offerStack, 51204)
       = 27000000
  /\ QuantityAt(orderBookMap[last.input.product].bidStack, 51196)
       = 7000000


\* C34: for every Trade derived from an execution the lines are appended in
\* the order risk.txt, positions.txt, executions.txt, one line to each, and
\* the execution sink is called only after the three are written.
C34_FilesBeforeSink ==
  last.kind = "OrderBook" =>
    LET t == trace
        derived == IndexesOf(t, "ProcessAdd", "TradeBookingListener")
        risk == IndexesOf(t, "append", "risk.txt")
        positions == IndexesOf(t, "append", "positions.txt")
        executions == IndexesOf(t, "append", "executions.txt")
        sink == IndexesOf(t, "ExecuteOrder", "ExecutionService")
    IN /\ Cardinality(derived) <= 1
       /\ \A part \in {risk, positions, executions, sink} :
            Cardinality(part) = Cardinality(derived)
       /\ \A d \in derived, r \in risk, p \in positions, e \in executions,
             k \in sink :
            /\ d < r
            /\ r < p
            /\ p < e
            /\ e < k
            /\ t[r].arg.product = t[d].arg.product
            /\ t[p].arg.product = t[d].arg.product
            /\ t[e].arg = t[d].arg
            /\ t[k].arg = t[d].arg
            /\ \A j \in IndexesOf(t, "Publish", "ExecutionOutputConnector") :
                 k < j

\* A market data line gave a Trade; the three files got their line and the
\* sink took the order.
C34_Witness ==
  /\ last.kind = "OrderBook"
  /\ last.returned
  /\ Calls(trace, "ProcessAdd", "TradeBookingListener") = 1
  /\ Calls(trace, "append", "risk.txt") = 1
  /\ Calls(trace, "append", "positions.txt") = 1
  /\ Calls(trace, "append", "executions.txt") = 1
  /\ Calls(trace, "Publish", "ExecutionOutputConnector") = 1
  /\ Len(files["risk.txt"]) = 2
  /\ Len(files["positions.txt"]) = 2
  /\ Len(files["executions.txt"]) = 2


\* Whether the best offer of the book is within 1/128 of its best bid.
IsTight(orderBook) ==
  BestOffer(orderBook).price - BestBid(orderBook).price <= TightSpread

\* C35: the counter of the algo execution service goes up by exactly one
\* for every OrderBook the service processes, whether or not the spread
\* passes the test and whatever the product; so the side chosen for a book
\* that passes is BID when the number of books processed before it, of any
\* product and spread, is even, and OFFER when it is odd.
C35_CountsEveryBook ==
  LET books == ArgsOf(history, "ProcessAdd", "AlgoExecutionServiceListener")
      executions == ArgsOf(history, "ProcessAdd", "ExecutionServiceListener")
  IN /\ aeCount = Len(books)
     /\ Len(executions) = Len(books)
     /\ \A k \in DOMAIN books :
          IsTight(books[k]) =>
            /\ executions[k].executionOrder.product = books[k].product
            /\ executions[k].executionOrder.side =
                 IF (k - 1) % 2 = 0 THEN "BID" ELSE "OFFER"

\* A book of one product that fails the spread test, then a book of the
\* other product that passes it: the second gets side OFFER.
C35_Witness ==
  LET books == ArgsOf(history, "ProcessAdd", "AlgoExecutionServiceListener")
      executions == ArgsOf(history, "ProcessAdd", "ExecutionServiceListener")
  IN /\ Len(books) = 2
     /\ ~IsTight(books[1])
     /\ IsTight(books[2])
     /\ books[1].product /= books[2].product
     /\ executions[2].executionOrder.side = "OFFER"
     /\ aeCount = 2


\* C36: the counter of the algo streaming service is one for all products:
\* two AlgoStreams of a run have the same visible quantity exactly when the
\* numbers of Prices processed before them, of whatever product, have the
\* same parity; so when the Prices of two products strictly alternate, each
\* product gets the same visible quantity every time.
C36_CounterSharedByProducts ==
  LET streams == AlgoStreams
      n == Len(streams)
      Visible(i) == streams[i].priceStream.bid.visible
      Product(i) == streams[i].priceStream.product
  IN /\ asCount - n \in UninitLong
     /\ \A i, j \in 1..n :
          (Visible(i) = Visible(j)) <=> ((j - i) % 2 = 0)
     /\ (\A i \in 1..(n - 1) : Product(i) /= Product(i + 1)) =>
          \A i, j \in 1..n :
            Product(i) = Product(j) => Visible(i) = Visible(j)

\* Prices of two products in turn: the first product gets 2,000,000 both
\* times, the other 1,000,000.
C36_Witness ==
  /\ Len(AlgoStreams) = 3
  /\ AlgoStreams[1].priceStream.product = "9128283H1"
  /\ AlgoStreams[2].priceStream.product = "912828M80"
  /\ AlgoStreams[3].priceStream.product = "9128283H1"
  /\ [i \in 1..3 |-> AlgoStreams[i].priceStream.bid.visible]
       = <<2000000, 1000000, 2000000>>


\* C37: SendQuote or RejectInquiry called with an inquiry id that is not in
\* the store adds no record to the store and notifies no listener.
C37_AbsentIdIsIgnored ==
  [][(/\ last'.kind \in {"SendQuote", "RejectInquiry"}
      /\ ~Has(inquiryMap, last'.input.inquiryId)) =>
       /\ inquiryMap' = inquiryMap
       /\ \A i \in DOMAIN trace' : trace'[i].call /= "ProcessAdd"]_vars


\* C38: processing a Price changes only the state of the pricing, algo
\* streaming, streaming and GUI services and the files streaming.txt and
\* gui.txt (with the historical service that writes streaming.txt); it never
\* changes the stores of the market data, algo execution, execution, trade
\* booking, position, risk or inquiry services, their counters or their
\* output files.  Processing an Inquiry changes only the inquiry store and
\* allinquiries.txt (with the historical service that writes it).
C38_FlowsAreSeparate ==
  [][/\ last'.kind = "Price" =>
          /\ UNCHANGED <<orderBookMap, algoExecutionMap, aeCount,
                         executionOrderMap, execSink, tradeMap, tbCount,
                         positionMap, pv01Map, inquiryMap>>
          /\ \A f \in FileNames \ {"streaming.txt", "gui.txt"} :
               files'[f] = files[f]
          /\ \A type \in ServiceTypes \ {"STREAMING"} :
               histMap'[type] = histMap[type]
     /\ last'.kind = "Inquiry" =>
          /\ UNCHANGED <<priceMap, algoStreamMap, asCount, priceStreamMap,
                         streamSink, guiStartTime, orderBookMap,
                         algoExecutionMap, aeCount, executionOrderMap,
                         execSink, tradeMap, tbCount, positionMap, pv01Map>>
          /\ \A f \in FileNames \ {"allinquiries.txt"} :
               files'[f] = files[f]
          /\ \A type \in ServiceTypes \ {"INQUIRY"} :
               histMap'[type] = histMap[type]]_vars

\* A Price was processed after a market data line had filled the stores of
\* the execution flow and an Inquiry had been stored: streaming.txt and
\* gui.txt have their line, the other stores are as the earlier events left
\* them.
C38_Witness ==
  /\ last.kind = "Price"
  /\ last.returned
  /\ nEvents = 3
  /\ Len(files["streaming.txt"]) = 1
  /\ Len(files["gui.txt"]) = 1
  /\ Len(files["risk.txt"]) = 1
  /\ Len(files["allinquiries.txt"]) = 1
  /\ positionMap /= EmptyMap
  /\ pv01Map /= EmptyMap
  /\ inquiryMap /= EmptyMap
  /\ aeCount = 1
  /\ tbCount = 1


\* Every listener main registers.
AllListeners ==
  UNION {{Listeners[service][n] : n \in DOMAIN Listeners[service]} :
           service \in DOMAIN Listeners}

\* C39: every OnMessage driven by a feed returns after finitely many
\* listener calls: no listener is called more than once in a root event,
\* but for the listener of the inquiry service, called at most three times;
\* InquiryService::OnMessage enters itself at most once per intake (for an
\* inquiry that came RECEIVED, through the connector's Publish, in state
\* QUOTED), and each entry returns.
C39_OnMessageReturns ==
  last.kind \in {"Price", "OrderBook", "Trade", "Inquiry"} =>
    LET t == trace
        entries == IndexesOf(t, "OnMessage", "InquiryService")
        returns == IndexesOf(t, "return", "InquiryService")
    IN /\ \A l \in AllListeners :
            Calls(t, "ProcessAdd", l)
              <= IF l = "HistoricalInquiryListener" THEN 3 ELSE 1
       /\ Cardinality(returns) = Cardinality(entries)
       /\ IF last.kind = "Inquiry"
            THEN /\ Cardinality(entries)
                      = IF last.input.state = "RECEIVED" THEN 2 ELSE 1
                 /\ t[1] = Ev("OnMessage", "InquiryService", last.input)
                 /\ \A i \in entries \ {1} : t[i].arg.state = "QUOTED"
                 /\ t[Len(t)].call = "return"
                 /\ last.returned
            ELSE entries = {}

\* A RECEIVED inquiry came: OnMessage was entered twice, the second time
\* with the inquiry QUOTED, returned twice, and the listener was called
\* three times.
C39_Witness ==
  /\ last.kind = "Inquiry"
  /\ last.input.state = "RECEIVED"
  /\ Calls(trace, "OnMessage", "InquiryService") = 2
  /\ Calls(trace, "return", "InquiryService") = 2
  /\ Calls(trace, "ProcessAdd", "HistoricalInquiryListener") = 3
  /\ trace[2].call = "OnMessage"
  /\ trace[2].arg.state = "QUOTED"
  /\ ~Has(inquiryMap, last.input.inquiryId)

---------------------------------------------------------------------------
\* The newlines among the bytes.
NewlinesIn(bytes) == Cardinality({i \in DOMAIN bytes : bytes[i] = "\n"})

\* What follows the last newline of the bytes.
RECURSIVE TrailingFragment(_)
TrailingFragment(bytes) ==
  IF bytes = <<>> \/ bytes[Len(bytes)] = "\n" THEN <<>>
  ELSE Append(TrailingFragment(SubSeq(bytes, 1, Len(bytes) - 1)),
              bytes[Len(bytes)])

\* C31: however the bytes of a price or trade connection are split across
\* the reads, the records handed to the service are those of the lines sent,
\* once each and in the order sent; while the adapter runs they are exactly
\* the lines whose newline has arrived, and the streambuf holds the bytes
\* that arrived after the last newline and nothing else.
C31_LinesFramedOnNewline ==
  \A feed \in SocketFeeds :
    LET c == socket[feed]
        complete == NewlinesIn(c.arrived)
    IN c.state /= "listening" =>
         /\ Len(c.delivered) <= complete
         /\ \A i \in DOMAIN c.delivered : c.delivered[i] = c.sent[i].record
         /\ alive[feed] => Len(c.delivered) = complete
         /\ (alive[feed] /\ c.state = "open") =>
              c.request = TrailingFragment(c.arrived)

\* Of two price lines sent, the first was delivered, and the streambuf
\* holds the first two fields of the second, whose newline is still on the
\* wire.
C31_Witness ==
  /\ last.kind = "Read"
  /\ nEvents = 1
  /\ Len(socket["price"].sent) = 2
  /\ socket["price"].delivered = <<socket["price"].sent[1].record>>
  /\ socket["price"].request = SubSeq(socket["price"].sent[2].text, 1, 4)
  /\ "\n" \in {socket["price"].wire[i] : i \in DOMAIN socket["price"].wire}
  /\ alive["price"]

===========================================================================
